---- MODULE Spec2Model ----
(***************************************************************************)
(* A model of the JSON vs Protocol Buffers benchmark                       *)
(* (src/src/test_data.rs, src/src/benchmark.rs, src/src/main.rs).          *)
(*                                                                         *)
(* Seven specifications share one set of variables:                        *)
(*   SpecFixture  calls of generate_test_data / generate_evolved_test_data *)
(*   SpecMapper   the backward (widen) and forward (narrow) mappings of    *)
(*                test_schema_evolution                                    *)
(*   SpecPayload  runs of test_payload_size alone                          *)
(*   SpecVote     print_results over a stored composite result             *)
(*   SpecLatency  the workers of test_latency_under_load                   *)
(*   Spec         main: run_all_tests followed by print_results            *)
(*   SpecPanic    Spec, with operations that may fail                      *)
(***************************************************************************)
EXTENDS Integers, Sequences, FiniteSets, TLC

(***************************************************************************)
(* Bounds of the model.                                                    *)
(***************************************************************************)
\* largest size factor passed to the fixture generators
MaxSize == 6
\* number of generator calls recorded in one behaviour
MaxCalls == 2
\* largest data_size of the schema-evolution trial whose mappings are followed
MaxMapSize == 5
\* largest data_size of a full run
MaxRunSize == 1
\* largest iteration count of a full run
MaxIterations == 2
\* the measured sections of a full run take at most this many milliseconds in
\* all, beyond the time the code itself waits
MaxSlack == 1
\* most operations completed in one throughput window
MaxOps == 1
\* workers per format of the latency trial (the code sets 10)
concurrent_ops == 2
\* decode-then-pause steps of one worker (the code sets 10)
iter_per_thread == 2
\* the deflate stream of n bytes is taken at MaxRatioSteps + 1 lengths between
\* the shortest stream and the stored block
MaxRatioSteps == 1
\* longest phone list of an arbitrary (not generated) record
MaxArbPhones == 2
\* longest address list of an arbitrary (not generated) record
MaxArbAddresses == 1
\* largest data size of a run of the payload-size trial alone
MaxPayloadSize == 2

VARIABLES
    calls,          \* history of generator calls: <<[fn, size, result]>>
    proto_basic,    \* test_schema_evolution: the base record that is encoded
    proto_evolved,  \* test_schema_evolution: the evolved record that is encoded
    json_evolved_data, \* test_schema_evolution: the evolved record of the text codec
    evolved,        \* Option: result of the backward mapping
    basic,          \* Option: result of the forward mapping
    basic_again,    \* Option: forward mapping applied to `evolved`
    filtered_data,  \* Option: the document the text filter has built last
    data_size,      \* PerformanceTester::data_size
    iterations,     \* PerformanceTester::iterations
    results,        \* PerformanceTester::results, Option<BenchmarkResults>
    pc,             \* async_main / run_all_tests: index of the next statement
    trial_results,  \* run_all_tests: the value each trial has returned so far
    clock,          \* the monotonic clock (Instant), in milliseconds
    stdout,         \* the banner and verdict lines printed since the tester was made
                    \* (the lines that print measured numbers are left out)
    table,          \* the rows of the printed result table
    json_wins,      \* print_results: the counter of JSON votes
    proto_wins,     \* print_results: the counter of Protobuf votes
    main_at,        \* the statement of test_latency_under_load the caller is at
    spawned,        \* per format, the handles pushed by the spawn loop
    joined,         \* per format, the handles the join loop has awaited
    workers,        \* per format and handle, the state of the spawned task
    started,        \* per format, the instant json_start / proto_start
    times,          \* per format, the elapsed time once it is read
    latency_metric, \* the metric test_latency_under_load returns
    stderr,         \* the panic reports printed so far
    failed          \* Option: the trial and format whose operation returned an Err

fixtureVars == <<calls>>
mapperVars == <<proto_basic, proto_evolved, json_evolved_data, evolved, basic, basic_again,
               filtered_data>>
latencyVars == <<main_at, spawned, joined, workers, started, times, latency_metric>>
panicVars == <<stderr, failed>>
runVars == <<data_size, iterations, results, pc, trial_results, clock, stdout, table,
             json_wins, proto_wins>>
vars == <<calls, proto_basic, proto_evolved, json_evolved_data, evolved, basic, basic_again,
          filtered_data,
          data_size, iterations, results, pc, trial_results, clock, stdout, table,
          json_wins, proto_wins,
          main_at, spawned, joined, workers, started, times, latency_metric,
          stderr, failed>>

(***************************************************************************)
(* Rust values.                                                            *)
(***************************************************************************)
\* Option<T>
None == <<>>
Some(v) == <<v>>
IsSome(o) == o /= None
Unwrap(o) == o[1]

\* HashMap::new()
EmptyMap == <<>>
\* HashMap::insert: the entry of an existing key is replaced
Insert(m, k, v) == [x \in (DOMAIN m) \cup {k} |-> IF x = k THEN v ELSE m[x]]

\* std::cmp::max
Max(a, b) == IF a > b THEN a ELSE b

\* the phone kinds of the two schemas
MOBILE == 0
HOME == 1
WORK == 2
OTHER_KIND == 3

(***************************************************************************)
(* test_data.rs: generate_test_data.                                       *)
(***************************************************************************)
\* for i in 0..size { phones.push(JsonPhoneNumber {..}) }
JsonPhonesLoop(size) ==
    [k \in 1..size |->
        LET i == k - 1
            phone_type == i % 3
        IN  [number |-> "555-" \o ToString(1000 + i), type_ |-> phone_type]]

\* a generator whose binary record starts the cycle of kinds one step later
ProtoPhonesLoopShifted(size) ==
    [k \in 1..size |->
        LET i == k - 1
            phone_type == (i + 1) % 3
        IN  [number |-> "555-" \o ToString(1000 + i), type |-> phone_type]]

\* for i in 0..size { phones.push(person::PhoneNumber {..}) }
ProtoPhonesLoop(size) ==
    [k \in 1..size |->
        LET i == k - 1
            phone_type == i % 3
        IN  [number |-> "555-" \o ToString(1000 + i), type |-> phone_type]]

\* a generator that forgets the lower bound of one address
AddressCountNoMax(size) == size \div 2

\* for i in 0..max(1, size / 2) { addresses.push(..) }, the same for both records
AddressCount(size) == Max(1, size \div 2)

AddressesLoop(size) ==
    [k \in 1..AddressCount(size) |->
        LET i == k - 1
        IN  [street  |-> ToString(100 + i) \o " Main St",
             city    |-> "City " \o ToString(i),
             state   |-> "State " \o ToString(i),
             zip     |-> ToString(10000 + i),
             country |-> "Country"]]

\* the key and the value the metadata loop inserts at index i
MetadataKey(i) == "key" \o ToString(i)
MetadataValue(i) == "value" \o ToString(i)

\* for i in 0..size { metadata.insert(key, value) }
RECURSIVE MetadataLoop(_, _, _)
MetadataLoop(i, size, m) ==
    IF i >= size THEN m
    ELSE MetadataLoop(i + 1, size, Insert(m, MetadataKey(i), MetadataValue(i)))

\* a generator that numbers its records with the calls made so far
generate_test_data_counting(size) ==
    LET id == 12345 + Len(calls)
    IN  [json  |-> [name      |-> "Test Person",
                    id        |-> id,
                    email     |-> "test@example.com",
                    phones    |-> JsonPhonesLoop(size),
                    addresses |-> AddressesLoop(size),
                    metadata  |-> MetadataLoop(0, size, EmptyMap)],
         proto |-> [name      |-> "Test Person",
                    id        |-> id,
                    email     |-> "test@example.com",
                    phones    |-> ProtoPhonesLoop(size),
                    addresses |-> AddressesLoop(size),
                    metadata  |-> MetadataLoop(0, size, EmptyMap)]]

\* generate_test_data(size) -> (JsonPerson, Person)
generate_test_data(size) ==
    [json  |-> [name      |-> "Test Person",
                id        |-> 12345,
                email     |-> "test@example.com",
                phones    |-> JsonPhonesLoop(size),
                addresses |-> AddressesLoop(size),
                metadata  |-> MetadataLoop(0, size, EmptyMap)],
     proto |-> [name      |-> "Test Person",
                id        |-> 12345,
                email     |-> "test@example.com",
                phones    |-> ProtoPhonesLoop(size),
                addresses |-> AddressesLoop(size),
                metadata  |-> MetadataLoop(0, size, EmptyMap)]]

(***************************************************************************)
(* test_data.rs: generate_evolved_test_data.                               *)
(***************************************************************************)
\* json_basic.phones.iter().map(|p| JsonPhoneNumberEvolved {..}).collect()
JsonEvolvedPhones(phones) ==
    [k \in 1..Len(phones) |->
        [number     |-> phones[k].number,
         type_      |-> phones[k].type_,
         is_primary |-> Some(phones[k].type_ = 0)]]

\* json_basic.addresses.iter().map(|a| JsonAddressEvolved {..}).collect()
JsonEvolvedAddresses(addresses) ==
    [k \in 1..Len(addresses) |->
        [street          |-> addresses[k].street,
         city            |-> addresses[k].city,
         state           |-> addresses[k].state,
         zip             |-> addresses[k].zip,
         country         |-> addresses[k].country,
         additional_info |-> Some("Extra address details")]]

\* a generator that marks every other phone primary, whatever its kind
ProtoEvolvedPhonesLoopFirstPrimary(size) ==
    [k \in 1..size |->
        LET i == k - 1
            phone_type == i % 3
        IN  [number     |-> "555-" \o ToString(1000 + i),
             type       |-> phone_type,
             is_primary |-> (i % 2 = 0)]]

\* for i in 0..size { proto_evolved.phones.push(..) }
ProtoEvolvedPhonesLoop(size) ==
    [k \in 1..size |->
        LET i == k - 1
            phone_type == i % 3
        IN  [number     |-> "555-" \o ToString(1000 + i),
             type       |-> phone_type,
             is_primary |-> (phone_type = 0)]]

\* an evolved generator that pushes one address for each phone
ProtoEvolvedAddressesLoopPerPhone(size) ==
    [k \in 1..Max(1, size) |->
        LET i == k - 1
        IN  [street          |-> ToString(100 + i) \o " Main St",
             city            |-> "City " \o ToString(i),
             state           |-> "State " \o ToString(i),
             zip             |-> ToString(10000 + i),
             country         |-> "Country",
             additional_info |-> "Extra address details"]]

\* for i in 0..max(1, size / 2) { proto_evolved.addresses.push(..) }
ProtoEvolvedAddressesLoop(size) ==
    [k \in 1..Max(1, size \div 2) |->
        LET i == k - 1
        IN  [street          |-> ToString(100 + i) \o " Main St",
             city            |-> "City " \o ToString(i),
             state           |-> "State " \o ToString(i),
             zip             |-> ToString(10000 + i),
             country         |-> "Country",
             additional_info |-> "Extra address details"]]

\* for i in 0..size { proto_evolved.metadata.insert(key, value) }
RECURSIVE ProtoEvolvedMetadataLoop(_, _, _)
ProtoEvolvedMetadataLoop(i, size, m) ==
    IF i >= size THEN m
    ELSE ProtoEvolvedMetadataLoop(i + 1, size,
             Insert(m, "key" \o ToString(i), "value" \o ToString(i)))

\* generate_evolved_test_data(size) -> (JsonPersonEvolved, evolved::Person)
generate_evolved_test_data(size) ==
    LET json_basic == generate_test_data(size).json
    IN  [json  |-> [name             |-> json_basic.name,
                    id               |-> json_basic.id,
                    email            |-> json_basic.email,
                    phones           |-> JsonEvolvedPhones(json_basic.phones),
                    addresses        |-> JsonEvolvedAddresses(json_basic.addresses),
                    metadata         |-> json_basic.metadata,
                    additional_field |-> Some("New information"),
                    priority         |-> Some(5)],
         proto |-> [name             |-> json_basic.name,
                    id               |-> json_basic.id,
                    email            |-> json_basic.email,
                    phones           |-> ProtoEvolvedPhonesLoop(size),
                    addresses        |-> ProtoEvolvedAddressesLoop(size),
                    metadata         |-> ProtoEvolvedMetadataLoop(0, size, EmptyMap),
                    additional_field |-> "New information",
                    priority         |-> 5]]

(***************************************************************************)
(* benchmark.rs, test_schema_evolution: the two manual mappings.           *)
(***************************************************************************)
\* a backward mapping that leaves is_primary at the default of its type
widen_default_primary(basic_decoded) ==
    [name             |-> basic_decoded.name,
     id               |-> basic_decoded.id,
     email            |-> basic_decoded.email,
     phones           |-> [k \in 1..Len(basic_decoded.phones) |->
                             [number     |-> basic_decoded.phones[k].number,
                              type       |-> basic_decoded.phones[k].type,
                              is_primary |-> FALSE]],
     addresses        |-> [k \in 1..Len(basic_decoded.addresses) |->
                             [street          |-> basic_decoded.addresses[k].street,
                              city            |-> basic_decoded.addresses[k].city,
                              state           |-> basic_decoded.addresses[k].state,
                              zip             |-> basic_decoded.addresses[k].zip,
                              country         |-> basic_decoded.addresses[k].country,
                              additional_info |-> ""]],
     metadata         |-> basic_decoded.metadata,
     additional_field |-> "",
     priority         |-> 0]

\* a backward mapping that collects the phones in reverse
widen_reversed(basic_decoded) ==
    [name             |-> basic_decoded.name,
     id               |-> basic_decoded.id,
     email            |-> basic_decoded.email,
     phones           |-> [k \in 1..Len(basic_decoded.phones) |->
                             LET p == basic_decoded.phones[Len(basic_decoded.phones) + 1 - k]
                             IN  [number     |-> p.number,
                                  type       |-> p.type,
                                  is_primary |-> (p.type = 0)]],
     addresses        |-> [k \in 1..Len(basic_decoded.addresses) |->
                             [street          |-> basic_decoded.addresses[k].street,
                              city            |-> basic_decoded.addresses[k].city,
                              state           |-> basic_decoded.addresses[k].state,
                              zip             |-> basic_decoded.addresses[k].zip,
                              country         |-> basic_decoded.addresses[k].country,
                              additional_info |-> ""]],
     metadata         |-> basic_decoded.metadata,
     additional_field |-> "",
     priority         |-> 0]

\* backward mapping: evolved::Person built from a decoded base Person
widen(basic_decoded) ==
    [name             |-> basic_decoded.name,
     id               |-> basic_decoded.id,
     email            |-> basic_decoded.email,
     phones           |-> [k \in 1..Len(basic_decoded.phones) |->
                             [number     |-> basic_decoded.phones[k].number,
                              type       |-> basic_decoded.phones[k].type,
                              is_primary |-> (basic_decoded.phones[k].type = 0)]],
     addresses        |-> [k \in 1..Len(basic_decoded.addresses) |->
                             [street          |-> basic_decoded.addresses[k].street,
                              city            |-> basic_decoded.addresses[k].city,
                              state           |-> basic_decoded.addresses[k].state,
                              zip             |-> basic_decoded.addresses[k].zip,
                              country         |-> basic_decoded.addresses[k].country,
                              additional_info |-> ""]],
     metadata         |-> basic_decoded.metadata,
     additional_field |-> "",
     priority         |-> 0]

\* a forward mapping that maps a kind the base schema lacks to its default
narrow_known_kinds(evolved_decoded) ==
    [name      |-> evolved_decoded.name,
     id        |-> evolved_decoded.id,
     email     |-> evolved_decoded.email,
     phones    |-> [k \in 1..Len(evolved_decoded.phones) |->
                      [number |-> evolved_decoded.phones[k].number,
                       type   |-> IF evolved_decoded.phones[k].type > 2 THEN 0
                                  ELSE evolved_decoded.phones[k].type]],
     addresses |-> [k \in 1..Len(evolved_decoded.addresses) |->
                      [street  |-> evolved_decoded.addresses[k].street,
                       city    |-> evolved_decoded.addresses[k].city,
                       state   |-> evolved_decoded.addresses[k].state,
                       zip     |-> evolved_decoded.addresses[k].zip,
                       country |-> evolved_decoded.addresses[k].country]],
     metadata  |-> evolved_decoded.metadata]

\* forward mapping: base Person built from a decoded evolved::Person
narrow(evolved_decoded) ==
    [name      |-> evolved_decoded.name,
     id        |-> evolved_decoded.id,
     email     |-> evolved_decoded.email,
     phones    |-> [k \in 1..Len(evolved_decoded.phones) |->
                      [number |-> evolved_decoded.phones[k].number,
                       type   |-> evolved_decoded.phones[k].type]],
     addresses |-> [k \in 1..Len(evolved_decoded.addresses) |->
                      [street  |-> evolved_decoded.addresses[k].street,
                       city    |-> evolved_decoded.addresses[k].city,
                       state   |-> evolved_decoded.addresses[k].state,
                       zip     |-> evolved_decoded.addresses[k].zip,
                       country |-> evolved_decoded.addresses[k].country]],
     metadata  |-> evolved_decoded.metadata]

(***************************************************************************)
(* The binary codec (prost, proto3 wire format) over the two schemas.      *)
(* An encoded message is a sequence of wire items: one byte, or the bytes  *)
(* of one text taken whole.  The field numbers are those of the schema     *)
(* files proto/person.proto and proto/person_evolved.proto.                *)
(***************************************************************************)
Byte(n) == [b |-> n, s |-> ""]
Text(t) == [b |-> 0 - 1, s |-> t]
IsByte(x) == x.b >= 0
ItemLen(x) == IF IsByte(x) THEN 1 ELSE Len(x.s)

\* Vec<u8>::len of an encoded message
RECURSIVE WireLen(_)
WireLen(w) == IF w = <<>> THEN 0 ELSE ItemLen(Head(w)) + WireLen(Tail(w))

\* base-128 varint, least significant group first
RECURSIVE Varint(_)
Varint(n) == IF n < 128 THEN <<Byte(n)>> ELSE <<Byte((n % 128) + 128)>> \o Varint(n \div 128)

\* wire types
VARINT == 0
LEN == 2

Key(field, wire_type) == Varint(field * 8 + wire_type)

\* proto3: a field holding its default value is not written
EncString(field, str) ==
    IF str = "" THEN <<>> ELSE Key(field, LEN) \o Varint(Len(str)) \o <<Text(str)>>
EncInt32(field, v) == IF v = 0 THEN <<>> ELSE Key(field, VARINT) \o Varint(v)
EncBool(field, v) == IF v THEN Key(field, VARINT) \o <<Byte(1)>> ELSE <<>>
\* an embedded message is written even when it is empty
EncMessage(field, body) == Key(field, LEN) \o Varint(WireLen(body)) \o body

\* a repeated message field: one embedded message per element, in order
RECURSIVE EncRepeated(_, _)
EncRepeated(field, bodies) ==
    IF bodies = <<>> THEN <<>>
    ELSE EncMessage(field, Head(bodies)) \o EncRepeated(field, Tail(bodies))

\* the entries of a map, written in the order the HashMap iterates its keys
RECURSIVE EncMap(_, _, _)
EncMap(field, m, order) ==
    IF order = <<>> THEN <<>>
    ELSE EncMessage(field, EncString(1, Head(order)) \o EncString(2, m[Head(order)]))
         \o EncMap(field, m, Tail(order))

PhoneNumber_encode(p) == EncString(1, p.number) \o EncInt32(2, p.type)

Address_encode(a) ==
    EncString(1, a.street) \o EncString(2, a.city) \o EncString(3, a.state)
    \o EncString(4, a.zip) \o EncString(5, a.country)

\* Person::encode
Person_encode(p, order) ==
    EncString(1, p.name) \o EncInt32(2, p.id) \o EncString(3, p.email)
    \o EncRepeated(4, [k \in 1..Len(p.phones) |-> PhoneNumber_encode(p.phones[k])])
    \o EncRepeated(5, [k \in 1..Len(p.addresses) |-> Address_encode(p.addresses[k])])
    \o EncMap(6, p.metadata, order)

EvolvedPhoneNumber_encode(p) ==
    EncString(1, p.number) \o EncInt32(2, p.type) \o EncBool(3, p.is_primary)

EvolvedAddress_encode(a) ==
    EncString(1, a.street) \o EncString(2, a.city) \o EncString(3, a.state)
    \o EncString(4, a.zip) \o EncString(5, a.country) \o EncString(6, a.additional_info)

\* evolved::Person::encode
EvolvedPerson_encode(p, order) ==
    EncString(1, p.name) \o EncInt32(2, p.id) \o EncString(3, p.email)
    \o EncRepeated(4, [k \in 1..Len(p.phones) |-> EvolvedPhoneNumber_encode(p.phones[k])])
    \o EncRepeated(5, [k \in 1..Len(p.addresses) |-> EvolvedAddress_encode(p.addresses[k])])
    \o EncMap(6, p.metadata, order)
    \o EncString(7, p.additional_field) \o EncInt32(8, p.priority)

\* the orders in which a HashMap may iterate its keys: every order
RECURSIVE Orders(_)
Orders(keys) ==
    IF keys = {} THEN {<<>>}
    ELSE UNION {{<<k>> \o o : o \in Orders(keys \ {k})} : k \in keys}

\* ---- decoding ----
\* the varint starting at w[pos]: its value and the position after it
RECURSIVE ReadVarint(_, _)
ReadVarint(w, pos) ==
    IF w[pos].b < 128 THEN [v |-> w[pos].b, next |-> pos + 1]
    ELSE LET r == ReadVarint(w, pos + 1)
         IN  [v |-> (w[pos].b - 128) + 128 * r.v, next |-> r.next]

\* the items from w[pos] on that make up len bytes, and the position after them
RECURSIVE TakeBytes(_, _, _)
TakeBytes(w, pos, len) ==
    IF len <= 0 THEN [items |-> <<>>, next |-> pos]
    ELSE LET r == TakeBytes(w, pos + 1, len - ItemLen(w[pos]))
         IN  [items |-> <<w[pos]>> \o r.items, next |-> r.next]

\* one field: its number, its varint value or its payload, the position after it
ReadField(w, pos) ==
    LET k == ReadVarint(w, pos)
        field == k.v \div 8
        wire_type == k.v % 8
    IN  IF wire_type = VARINT
        THEN LET v == ReadVarint(w, k.next)
             IN  [field |-> field, val |-> v.v, payload |-> <<>>, next |-> v.next]
        ELSE LET l == ReadVarint(w, k.next)
                 t == TakeBytes(w, l.next, l.v)
             IN  [field |-> field, val |-> 0, payload |-> t.items, next |-> t.next]

\* the text of a length-delimited payload
AsString(payload) == IF payload = <<>> THEN "" ELSE payload[1].s

\* the fields of an encoded message, in the order they were written
RECURSIVE ReadFields(_, _)
ReadFields(w, pos) ==
    IF pos > Len(w) THEN <<>>
    ELSE LET f == ReadField(w, pos)
         IN  <<f>> \o ReadFields(w, f.next)

\* A message is decoded field by field into a value that starts as the default;
\* a field number the schema does not know is skipped.

MapEntry_merge(acc, f) ==
    CASE f.field = 1 -> [acc EXCEPT !.key = AsString(f.payload)]
      [] f.field = 2 -> [acc EXCEPT !.value = AsString(f.payload)]
      [] OTHER -> acc

RECURSIVE MapEntry_mergeAll(_, _)
MapEntry_mergeAll(fields, acc) ==
    IF fields = <<>> THEN acc
    ELSE MapEntry_mergeAll(Tail(fields), MapEntry_merge(acc, Head(fields)))

MapEntry_decode(w) ==
    MapEntry_mergeAll(ReadFields(w, 1), [key |-> "", value |-> ""])

PhoneNumber_merge(acc, f) ==
    CASE f.field = 1 -> [acc EXCEPT !.number = AsString(f.payload)]
      [] f.field = 2 -> [acc EXCEPT !.type = f.val]
      [] OTHER -> acc

RECURSIVE PhoneNumber_mergeAll(_, _)
PhoneNumber_mergeAll(fields, acc) ==
    IF fields = <<>> THEN acc
    ELSE PhoneNumber_mergeAll(Tail(fields), PhoneNumber_merge(acc, Head(fields)))

PhoneNumber_decode(w) ==
    PhoneNumber_mergeAll(ReadFields(w, 1), [number |-> "", type |-> 0])

Address_merge(acc, f) ==
    CASE f.field = 1 -> [acc EXCEPT !.street = AsString(f.payload)]
      [] f.field = 2 -> [acc EXCEPT !.city = AsString(f.payload)]
      [] f.field = 3 -> [acc EXCEPT !.state = AsString(f.payload)]
      [] f.field = 4 -> [acc EXCEPT !.zip = AsString(f.payload)]
      [] f.field = 5 -> [acc EXCEPT !.country = AsString(f.payload)]
      [] OTHER -> acc

RECURSIVE Address_mergeAll(_, _)
Address_mergeAll(fields, acc) ==
    IF fields = <<>> THEN acc
    ELSE Address_mergeAll(Tail(fields), Address_merge(acc, Head(fields)))

Address_decode(w) ==
    Address_mergeAll(ReadFields(w, 1), [street |-> "", city |-> "", state |-> "", zip |-> "",
                       country |-> ""])

Person_merge(acc, f) ==
    CASE f.field = 1 -> [acc EXCEPT !.name = AsString(f.payload)]
      [] f.field = 2 -> [acc EXCEPT !.id = f.val]
      [] f.field = 3 -> [acc EXCEPT !.email = AsString(f.payload)]
      [] f.field = 4 -> [acc EXCEPT !.phones = Append(@, PhoneNumber_decode(f.payload))]
      [] f.field = 5 -> [acc EXCEPT !.addresses = Append(@, Address_decode(f.payload))]
      [] f.field = 6 -> LET e == MapEntry_decode(f.payload)
                        IN  [acc EXCEPT !.metadata = Insert(@, e.key, e.value)]
      [] OTHER -> acc

RECURSIVE Person_mergeAll(_, _)
Person_mergeAll(fields, acc) ==
    IF fields = <<>> THEN acc
    ELSE Person_mergeAll(Tail(fields), Person_merge(acc, Head(fields)))

\* Person::decode
Person_decode(w) ==
    Person_mergeAll(ReadFields(w, 1), [name |-> "", id |-> 0, email |-> "", phones |-> <<>>,
                       addresses |-> <<>>, metadata |-> EmptyMap])

EvolvedPhoneNumber_merge(acc, f) ==
    CASE f.field = 1 -> [acc EXCEPT !.number = AsString(f.payload)]
      [] f.field = 2 -> [acc EXCEPT !.type = f.val]
      [] f.field = 3 -> [acc EXCEPT !.is_primary = (f.val /= 0)]
      [] OTHER -> acc

RECURSIVE EvolvedPhoneNumber_mergeAll(_, _)
EvolvedPhoneNumber_mergeAll(fields, acc) ==
    IF fields = <<>> THEN acc
    ELSE EvolvedPhoneNumber_mergeAll(Tail(fields), EvolvedPhoneNumber_merge(acc, Head(fields)))

EvolvedPhoneNumber_decode(w) ==
    EvolvedPhoneNumber_mergeAll(ReadFields(w, 1), [number |-> "", type |-> 0, is_primary |-> FALSE])

EvolvedAddress_merge(acc, f) ==
    CASE f.field = 1 -> [acc EXCEPT !.street = AsString(f.payload)]
      [] f.field = 2 -> [acc EXCEPT !.city = AsString(f.payload)]
      [] f.field = 3 -> [acc EXCEPT !.state = AsString(f.payload)]
      [] f.field = 4 -> [acc EXCEPT !.zip = AsString(f.payload)]
      [] f.field = 5 -> [acc EXCEPT !.country = AsString(f.payload)]
      [] f.field = 6 -> [acc EXCEPT !.additional_info = AsString(f.payload)]
      [] OTHER -> acc

RECURSIVE EvolvedAddress_mergeAll(_, _)
EvolvedAddress_mergeAll(fields, acc) ==
    IF fields = <<>> THEN acc
    ELSE EvolvedAddress_mergeAll(Tail(fields), EvolvedAddress_merge(acc, Head(fields)))

EvolvedAddress_decode(w) ==
    EvolvedAddress_mergeAll(ReadFields(w, 1), [street |-> "", city |-> "", state |-> "", zip |-> "",
                       country |-> "", additional_info |-> ""])

EvolvedPerson_merge(acc, f) ==
    CASE f.field = 1 -> [acc EXCEPT !.name = AsString(f.payload)]
      [] f.field = 2 -> [acc EXCEPT !.id = f.val]
      [] f.field = 3 -> [acc EXCEPT !.email = AsString(f.payload)]
      [] f.field = 4 ->
            [acc EXCEPT !.phones = Append(@, EvolvedPhoneNumber_decode(f.payload))]
      [] f.field = 5 ->
            [acc EXCEPT !.addresses = Append(@, EvolvedAddress_decode(f.payload))]
      [] f.field = 6 -> LET e == MapEntry_decode(f.payload)
                        IN  [acc EXCEPT !.metadata = Insert(@, e.key, e.value)]
      [] f.field = 7 -> [acc EXCEPT !.additional_field = AsString(f.payload)]
      [] f.field = 8 -> [acc EXCEPT !.priority = f.val]
      [] OTHER -> acc

RECURSIVE EvolvedPerson_mergeAll(_, _)
EvolvedPerson_mergeAll(fields, acc) ==
    IF fields = <<>> THEN acc
    ELSE EvolvedPerson_mergeAll(Tail(fields), EvolvedPerson_merge(acc, Head(fields)))

\* evolved::Person::decode
EvolvedPerson_decode(w) ==
    EvolvedPerson_mergeAll(ReadFields(w, 1), [name |-> "", id |-> 0, email |-> "", phones |-> <<>>,
                       addresses |-> <<>>, metadata |-> EmptyMap,
                       additional_field |-> "", priority |-> 0])

(***************************************************************************)
(* The text codec: serde_json::to_string of a JsonPerson.  The texts of    *)
(* the fixtures hold no character that JSON escapes.                       *)
(***************************************************************************)
JsonString(str) == "\"" \o str \o "\""
JsonMember(key, value) == JsonString(key) \o ":" \o value

\* the texts of seq, separated by commas
RECURSIVE Joined(_)
Joined(seq) ==
    IF seq = <<>> THEN ""
    ELSE IF Len(seq) = 1 THEN seq[1]
    ELSE seq[1] \o "," \o Joined(Tail(seq))

JsonObject(members) == "{" \o Joined(members) \o "}"
JsonArray(elements) == "[" \o Joined(elements) \o "]"

JsonPhoneNumber_to_string(p) ==
    JsonObject(<<JsonMember("number", JsonString(p.number)),
                 JsonMember("type_", ToString(p.type_))>>)

JsonAddress_to_string(a) ==
    JsonObject(<<JsonMember("street", JsonString(a.street)),
                 JsonMember("city", JsonString(a.city)),
                 JsonMember("state", JsonString(a.state)),
                 JsonMember("zip", JsonString(a.zip)),
                 JsonMember("country", JsonString(a.country))>>)

\* a writer that stops after the entry of key0
JsonMap_to_string_until_key0(m, order) ==
    IF order = <<>> THEN JsonObject(<<>>)
    ELSE LET last == CHOOSE k \in 1..Len(order) : order[k] = "key0"
         IN  JsonObject([k \in 1..last |-> JsonMember(order[k], JsonString(m[order[k]]))])

\* the entries of a HashMap, written in the order the map iterates its keys
JsonMap_to_string(m, order) ==
    JsonObject([k \in 1..Len(order) |-> JsonMember(order[k], JsonString(m[order[k]]))])

\* serde_json::to_string(&json_data)
JsonPerson_to_string(p, order) ==
    JsonObject(<<JsonMember("name", JsonString(p.name)),
                 JsonMember("id", ToString(p.id)),
                 JsonMember("email", JsonString(p.email)),
                 JsonMember("phones",
                     JsonArray([k \in 1..Len(p.phones) |->
                                   JsonPhoneNumber_to_string(p.phones[k])])),
                 JsonMember("addresses",
                     JsonArray([k \in 1..Len(p.addresses) |->
                                   JsonAddress_to_string(p.addresses[k])])),
                 JsonMember("metadata", JsonMap_to_string(p.metadata, order))>>)

(***************************************************************************)
(* The compressor: GzEncoder at the default level.  A gzip member is a     *)
(* 10-byte header, a deflate stream and an 8-byte trailer.  The stream of  *)
(* n bytes is at least the shortest stream there is and at most one stored *)
(* block; which length it has depends on the bytes, and is left open.      *)
(***************************************************************************)
GzipHeaderLen == 10
GzipTrailerLen == 8
ShortestDeflate == 2
StoredBlockOverhead == 5

DeflateLens(n) ==
    {ShortestDeflate + ((n + StoredBlockOverhead - ShortestDeflate) * k) \div MaxRatioSteps :
        k \in 0..MaxRatioSteps}

\* the lengths encoder.finish().unwrap().len() may have for n bytes written
GzipLens(n) == {GzipHeaderLen + d + GzipTrailerLen : d \in DeflateLens(n)}

(***************************************************************************)
(* f64 values.  Every value the trials compute is a quotient of two        *)
(* non-negative integers, kept exact; a quotient by zero is the infinity   *)
(* (or the NaN, for 0/0) that f64 division yields.                         *)
(***************************************************************************)
RECURSIVE GCD(_, _)
GCD(a, b) == IF b = 0 THEN a ELSE GCD(b, a % b)

\* n / d in lowest terms: 1/0 is the infinity, 0/0 the NaN
Rat(n, d) ==
    LET g == GCD(n, d)
    IN  IF g = 0 THEN [num |-> 0, den |-> 0] ELSE [num |-> n \div g, den |-> d \div g]

\* a < b of f64: false when either side is a NaN
Less(a, b) ==
    LET g == GCD(a.den, b.den)
    IN  /\ g # 0
        /\ a.num * (b.den \div g) < b.num * (a.den \div g)

\* a + b
Plus(a, b) == Rat(a.num * b.den + b.num * a.den, a.den * b.den)
\* a left as it is, not halved
NotHalved(a) == a

\* a / 2.0
Halved(a) == Rat(a.num, a.den * 2)
\* (a / b) * 100.0
Percent(a, b) ==
    LET g == GCD(a.den, b.den)
        h == GCD(a.num, b.num)
    IN  IF g = 0 \/ h = 0 THEN Rat(a.num * b.den, a.den * b.num)
        ELSE Rat((a.num \div h) * (b.den \div g) * 100, (a.den \div g) * (b.num \div h))

\* a winner decided by `<` between the two values
LowerWinsReversed(json, protobuf) == IF Less(protobuf, json) THEN "JSON" ELSE "Protobuf"

\* if json < protobuf { "JSON" } else { "Protobuf" }
LowerWins(json, protobuf) == IF Less(json, protobuf) THEN "JSON" ELSE "Protobuf"

\* a winner decided by `>=` between the two values
HigherWinsOrEqual(json, protobuf) == IF Less(json, protobuf) THEN "Protobuf" ELSE "JSON"

\* if json_throughput > proto_throughput { "JSON" } else { "Protobuf" }
HigherWins(json, protobuf) == IF Less(protobuf, json) THEN "JSON" ELSE "Protobuf"

BenchmarkMetric(json, protobuf, winner) ==
    [json |-> json, protobuf |-> protobuf,
     difference_percent |-> Percent(json, protobuf), winner |-> winner]

ThroughputMetric(json, protobuf, winner) ==
    [json |-> json, protobuf |-> protobuf,
     difference_percent |-> Percent(json, protobuf), winner |-> winner]

SchemaEvolutionMetric(json, backwards, forwards, average, winner) ==
    [json |-> json, protobuf_backwards |-> backwards, protobuf_forwards |-> forwards,
     protobuf_average |-> average, winner |-> winner]

(***************************************************************************)
(* run_all_tests and the ten trials.                                       *)
(***************************************************************************)
\* an order that calls the memory trial before the CPU trial
TrialOrderMemoryFirst ==
    <<"serialization", "deserialization", "payload_size", "memory_usage", "cpu_usage",
      "network_transfer", "latency_under_load", "parser_init", "throughput",
      "schema_evolution">>

\* the order in which run_all_tests calls the trials
TrialOrder ==
    <<"serialization", "deserialization", "payload_size", "cpu_usage", "memory_usage",
      "network_transfer", "latency_under_load", "parser_init", "throughput",
      "schema_evolution">>

\* the statements of async_main's full run around the ten trials, which are
\* statements 1 to 10
PcBegin == 0
PcStore == Len(TrialOrder) + 1
PcPrint == Len(TrialOrder) + 2
PcDone == Len(TrialOrder) + 3

\* the trial that run_all_tests calls next
NextTrial == IF pc \in 1..Len(TrialOrder) THEN TrialOrder[pc] ELSE "none"

NoTrialResults == [t \in {TrialOrder[k] : k \in 1..Len(TrialOrder)} |-> None]

\* let duration_ms = 1000.0
duration_ms == 1000
\* tokio::time::sleep(Duration::from_millis(1))
pause_ms == 1
\* let latency_ms = 50.0
latency_ms == 50

\* the time the trials run so far have waited by their own code: the throughput
\* windows and, per format of the latency trial, the pauses of one worker
Waited ==
    (IF IsSome(trial_results["latency_under_load"])
        THEN 2 * iter_per_thread * pause_ms ELSE 0)
    + (IF IsSome(trial_results["throughput"]) THEN 2 * duration_ms ELSE 0)

\* the time the measured sections may still take
Room == MaxSlack - (clock - Waited)

\* what a trial leaves unchanged
TrialFrame ==
    UNCHANGED <<fixtureVars, mapperVars, latencyVars, panicVars, data_size, iterations, results,
                table, json_wins, proto_wins>>

\* a trial returns: its banner is on stdout and its value is bound in run_all_tests
Returns(trial, banner, value, elapsed) ==
    /\ trial_results' = [trial_results EXCEPT ![trial] = Some(value)]
    /\ stdout' = Append(stdout, banner)
    /\ clock' = clock + elapsed
    /\ pc' = pc + 1
    /\ TrialFrame

\* the lengths of the two encodings of the fixture, the two maps iterated in the
\* orders order_json and order_proto
JsonSize(size, order_json) == Len(JsonPerson_to_string(generate_test_data(size).json, order_json))
ProtoSize(size, order_proto) == WireLen(Person_encode(generate_test_data(size).proto, order_proto))
MetadataOrders(size) == Orders(DOMAIN generate_test_data(size).json.metadata)

\* 1. test_serialization_speed
test_serialization_speed ==
    /\ NextTrial = "serialization"
    /\ \E json_elapsed, proto_elapsed \in 0..Room :
          /\ json_elapsed + proto_elapsed <= Room
          /\ LET json_time == Rat(json_elapsed, iterations)
                 proto_time == Rat(proto_elapsed, iterations)
             IN  Returns("serialization", "Testing serialization speed...",
                     BenchmarkMetric(json_time, proto_time, LowerWins(json_time, proto_time)),
                     json_elapsed + proto_elapsed)

\* 2. test_deserialization_speed
test_deserialization_speed ==
    /\ NextTrial = "deserialization"
    /\ \E json_elapsed, proto_elapsed \in 0..Room :
          /\ json_elapsed + proto_elapsed <= Room
          /\ LET json_time == Rat(json_elapsed, iterations)
                 proto_time == Rat(proto_elapsed, iterations)
             IN  Returns("deserialization", "Testing deserialization speed...",
                     BenchmarkMetric(json_time, proto_time, LowerWins(json_time, proto_time)),
                     json_elapsed + proto_elapsed)

\* PayloadSizeMetric { uncompressed, compressed } of the four lengths
PayloadSizeMetric(json_size, proto_size, json_compressed_size, proto_compressed_size) ==
    [uncompressed |->
        BenchmarkMetric(Rat(json_size, 1), Rat(proto_size, 1),
            LowerWins(Rat(json_size, 1), Rat(proto_size, 1))),
     compressed |->
        BenchmarkMetric(Rat(json_compressed_size, 1), Rat(proto_compressed_size, 1),
            LowerWins(Rat(json_compressed_size, 1), Rat(proto_compressed_size, 1)))]

\* 3. test_payload_size
test_payload_size ==
    /\ NextTrial = "payload_size"
    /\ \E order_json, order_proto \in MetadataOrders(data_size) :
          LET json_size == JsonSize(data_size, order_json)
              proto_size == ProtoSize(data_size, order_proto)
          IN  \E json_compressed_size \in GzipLens(json_size),
                 proto_compressed_size \in GzipLens(proto_size) :
                 Returns("payload_size", "Testing payload size...",
                     PayloadSizeMetric(json_size, proto_size, json_compressed_size,
                                       proto_compressed_size),
                     0)

\* one run of the program with --test payload: test_payload_size alone, on a tester
\* made for size; the run is recorded with the orders its two maps iterate in
PayloadRun(size) ==
    /\ Len(calls) < 2
    /\ \E order_json, order_proto \in MetadataOrders(size) :
          LET json_size == JsonSize(size, order_json)
              proto_size == ProtoSize(size, order_proto)
          IN  \E json_compressed_size \in GzipLens(json_size),
                 proto_compressed_size \in GzipLens(proto_size) :
                 calls' = Append(calls,
                     [fn |-> "test_payload_size", size |-> size,
                      order_json |-> order_json, order_proto |-> order_proto,
                      result |-> PayloadSizeMetric(json_size, proto_size,
                                     json_compressed_size, proto_compressed_size)])
    /\ UNCHANGED <<mapperVars, runVars, latencyVars, panicVars>>

\* 4. test_cpu_usage
test_cpu_usage ==
    /\ NextTrial = "cpu_usage"
    /\ \E json_elapsed, proto_elapsed \in 0..Room :
          /\ json_elapsed + proto_elapsed <= Room
          /\ LET json_time == Rat(json_elapsed, 1)
                 proto_time == Rat(proto_elapsed, 1)
             IN  Returns("cpu_usage", "Testing CPU usage (via execution time)...",
                     BenchmarkMetric(json_time, proto_time, LowerWins(json_time, proto_time)),
                     json_elapsed + proto_elapsed)

\* 5. test_memory_usage
test_memory_usage ==
    /\ NextTrial = "memory_usage"
    /\ \E json_elapsed, proto_elapsed \in 0..Room :
          /\ json_elapsed + proto_elapsed <= Room
          /\ LET json_time == Rat(json_elapsed, 1)
                 proto_time == Rat(proto_elapsed, 1)
             IN  Returns("memory_usage", "Testing memory usage (estimation)...",
                     BenchmarkMetric(json_time, proto_time, LowerWins(json_time, proto_time)),
                     json_elapsed + proto_elapsed)

\* a transfer time that falls as the payload grows
simulate_network_falling(size, latency) ==
    Plus(Rat(latency, 1), Rat(10 * 1024 * 1024, size * 8 * 1000))

\* latency + (size as f64 * 8.0) / (10.0 * 1024.0 * 1024.0) * 1000.0
simulate_network(size, latency) ==
    Plus(Rat(latency, 1), Rat(size * 8 * 1000, 10 * 1024 * 1024))

\* 6. test_network_transfer
test_network_transfer ==
    /\ NextTrial = "network_transfer"
    /\ \E order_json, order_proto \in MetadataOrders(data_size) :
          LET json_size == JsonSize(data_size, order_json)
              proto_size == ProtoSize(data_size, order_proto)
              json_network_time == simulate_network(json_size, latency_ms)
              proto_network_time == simulate_network(proto_size, latency_ms)
          IN  Returns("network_transfer", "Testing network transfer time (simulation)...",
                  BenchmarkMetric(json_network_time, proto_network_time,
                      LowerWins(json_network_time, proto_network_time)),
                  0)

\* 7. test_latency_under_load, as run_all_tests sees it: each format's elapsed time
\* is taken when its workers are done, no sooner than the pauses of one worker
test_latency_under_load ==
    /\ NextTrial = "latency_under_load"
    /\ \E json_extra, proto_extra \in 0..Room :
          /\ json_extra + proto_extra <= Room
          /\ LET json_time == Rat(iter_per_thread * pause_ms + json_extra, 1)
                 proto_time == Rat(iter_per_thread * pause_ms + proto_extra, 1)
             IN  Returns("latency_under_load", "Testing latency under load...",
                     BenchmarkMetric(json_time, proto_time, LowerWins(json_time, proto_time)),
                     2 * iter_per_thread * pause_ms + json_extra + proto_extra)

\* a trial whose text-format value grows with the iteration count
test_parser_initialization_per_iteration ==
    /\ NextTrial = "parser_init"
    /\ LET json_init_time == Rat(iterations, 100)
           proto_init_time == Rat(5, 1)
       IN  Returns("parser_init", "Testing parser initialization time...",
               BenchmarkMetric(json_init_time, proto_init_time,
                   LowerWins(json_init_time, proto_init_time)),
               0)

\* 8. test_parser_initialization: json_init_time = 0.01, proto_init_time = 5.0
test_parser_initialization ==
    /\ NextTrial = "parser_init"
    /\ LET json_init_time == Rat(1, 100)
           proto_init_time == Rat(5, 1)
       IN  Returns("parser_init", "Testing parser initialization time...",
               BenchmarkMetric(json_init_time, proto_init_time,
                   LowerWins(json_init_time, proto_init_time)),
               0)

\* 9. test_throughput: each loop ends once duration_ms have elapsed
test_throughput ==
    /\ NextTrial = "throughput"
    /\ \E json_counter, proto_counter \in 0..MaxOps :
       \E json_extra, proto_extra \in 0..Room :
          /\ json_extra + proto_extra <= Room
          /\ LET json_throughput == Rat(json_counter * 1000, duration_ms + json_extra)
                 proto_throughput == Rat(proto_counter * 1000, duration_ms + proto_extra)
             IN  Returns("throughput", "Testing throughput...",
                     ThroughputMetric(json_throughput, proto_throughput,
                         HigherWins(json_throughput, proto_throughput)),
                     2 * duration_ms + json_extra + proto_extra)

\* 10. test_schema_evolution: the times of the backward loop, the forward loop and
\* the filtering of the text document
test_schema_evolution ==
    /\ NextTrial = "schema_evolution"
    /\ \E backwards_elapsed, forwards_elapsed, json_elapsed \in 0..Room :
          /\ backwards_elapsed + forwards_elapsed + json_elapsed <= Room
          /\ LET backwards_time == Rat(backwards_elapsed, iterations)
                 forwards_time == Rat(forwards_elapsed, iterations)
                 json_time == Rat(json_elapsed, iterations)
                 proto_avg == Halved(Plus(backwards_time, forwards_time))
             IN  Returns("schema_evolution", "Testing schema evolution handling...",
                     SchemaEvolutionMetric(json_time, backwards_time, forwards_time,
                         proto_avg, LowerWins(json_time, proto_avg)),
                     backwards_elapsed + forwards_elapsed + json_elapsed)

\* run_all_tests is entered: its first line is printed
RunAllTestsBegin ==
    /\ pc = PcBegin
    /\ stdout' = Append(stdout,
                     "Running all tests with data size " \o ToString(data_size)
                     \o " and " \o ToString(iterations) \o " iterations...")
    /\ pc' = 1
    /\ UNCHANGED <<fixtureVars, mapperVars, latencyVars, panicVars, data_size, iterations, results,
                   trial_results, clock, table, json_wins, proto_wins>>

\* BenchmarkResults { serialization, deserialization, .. }
BenchmarkResults(values) ==
    [serialization      |-> Unwrap(values["serialization"]),
     deserialization    |-> Unwrap(values["deserialization"]),
     payload_size       |-> Unwrap(values["payload_size"]),
     cpu_usage          |-> Unwrap(values["cpu_usage"]),
     memory_usage       |-> Unwrap(values["memory_usage"]),
     network_transfer   |-> Unwrap(values["network_transfer"]),
     latency_under_load |-> Unwrap(values["latency_under_load"]),
     parser_init        |-> Unwrap(values["parser_init"]),
     throughput         |-> Unwrap(values["throughput"]),
     schema_evolution   |-> Unwrap(values["schema_evolution"])]

\* self.results = Some(BenchmarkResults {..}), after the tenth trial
StoreResults ==
    /\ pc = PcStore
    /\ results' = Some(BenchmarkResults(trial_results))
    /\ stdout' = Append(stdout, "All tests completed!")
    /\ pc' = PcPrint
    /\ UNCHANGED <<fixtureVars, mapperVars, latencyVars, panicVars, data_size, iterations,
                   trial_results, clock, table, json_wins, proto_wins>>

(***************************************************************************)
(* print_results.                                                          *)
(***************************************************************************)
\* the rows of the table, the header row apart; the numbers are not formatted
TableRows(r) ==
    <<[test |-> "Serialization (ms/op)", json |-> r.serialization.json,
       protobuf |-> r.serialization.protobuf,
       difference |-> r.serialization.difference_percent,
       winner |-> r.serialization.winner],
      [test |-> "Deserialization (ms/op)", json |-> r.deserialization.json,
       protobuf |-> r.deserialization.protobuf,
       difference |-> r.deserialization.difference_percent,
       winner |-> r.deserialization.winner],
      [test |-> "Payload Size (bytes)", json |-> r.payload_size.uncompressed.json,
       protobuf |-> r.payload_size.uncompressed.protobuf,
       difference |-> r.payload_size.uncompressed.difference_percent,
       winner |-> r.payload_size.uncompressed.winner],
      [test |-> "Compressed Size (bytes)", json |-> r.payload_size.compressed.json,
       protobuf |-> r.payload_size.compressed.protobuf,
       difference |-> r.payload_size.compressed.difference_percent,
       winner |-> r.payload_size.compressed.winner],
      [test |-> "CPU Usage (ms)", json |-> r.cpu_usage.json,
       protobuf |-> r.cpu_usage.protobuf,
       difference |-> r.cpu_usage.difference_percent,
       winner |-> r.cpu_usage.winner],
      [test |-> "Memory Usage (proxy ms)", json |-> r.memory_usage.json,
       protobuf |-> r.memory_usage.protobuf,
       difference |-> r.memory_usage.difference_percent,
       winner |-> r.memory_usage.winner],
      [test |-> "Network Transfer (ms)", json |-> r.network_transfer.json,
       protobuf |-> r.network_transfer.protobuf,
       difference |-> r.network_transfer.difference_percent,
       winner |-> r.network_transfer.winner],
      [test |-> "Latency Under Load (ms)", json |-> r.latency_under_load.json,
       protobuf |-> r.latency_under_load.protobuf,
       difference |-> r.latency_under_load.difference_percent,
       winner |-> r.latency_under_load.winner],
      [test |-> "Parser Init (ms)", json |-> r.parser_init.json,
       protobuf |-> r.parser_init.protobuf,
       difference |-> r.parser_init.difference_percent,
       winner |-> r.parser_init.winner],
      [test |-> "Throughput (ops/s)", json |-> r.throughput.json,
       protobuf |-> r.throughput.protobuf,
       difference |-> r.throughput.difference_percent,
       winner |-> r.throughput.winner],
      [test |-> "Schema Evolution (ms/op)", json |-> r.schema_evolution.json,
       protobuf |-> [backwards |-> r.schema_evolution.protobuf_backwards,
                     forwards |-> r.schema_evolution.protobuf_forwards],
       difference |-> Percent(r.schema_evolution.json, r.schema_evolution.protobuf_average),
       winner |-> r.schema_evolution.winner]>>

\* a count that takes the two payload-size sub-metrics as one vote
VotesOnePayloadVote(r) ==
    <<r.serialization.winner, r.deserialization.winner,
      r.payload_size.uncompressed.winner,
      r.cpu_usage.winner, r.memory_usage.winner, r.network_transfer.winner,
      r.latency_under_load.winner, r.parser_init.winner, r.throughput.winner,
      r.schema_evolution.winner>>

\* the winners that are counted, in the order of the counting statements
Votes(r) ==
    <<r.serialization.winner, r.deserialization.winner,
      r.payload_size.uncompressed.winner, r.payload_size.compressed.winner,
      r.cpu_usage.winner, r.memory_usage.winner, r.network_transfer.winner,
      r.latency_under_load.winner, r.parser_init.winner, r.throughput.winner,
      r.schema_evolution.winner>>

\* a count whose statements have no else branch
RECURSIVE CountWinsNoElse(_, _)
CountWinsNoElse(votes, wins) ==
    IF votes = <<>> THEN wins
    ELSE CountWinsNoElse(Tail(votes),
             IF Head(votes) = "JSON" THEN [wins EXCEPT !.json = @ + 1]
             ELSE wins)

\* if winner == "JSON" { json_wins += 1; } else { proto_wins += 1; }, per vote
RECURSIVE CountWins(_, _)
CountWins(votes, wins) ==
    IF votes = <<>> THEN wins
    ELSE CountWins(Tail(votes),
             IF Head(votes) = "JSON" THEN [wins EXCEPT !.json = @ + 1]
             ELSE [wins EXCEPT !.proto = @ + 1])

\* format!("Overall winner: {} ({} wins vs {} wins)", ..)
OverallWinnerLine(jw, pw) ==
    "Overall winner: " \o (IF jw > pw THEN "JSON" ELSE "Protocol Buffers")
    \o " (" \o ToString(IF jw > pw THEN jw ELSE pw)
    \o " wins vs " \o ToString(IF jw > pw THEN pw ELSE jw) \o " wins)"

\* tester.print_results()
print_results ==
    /\ pc = PcPrint
    /\ IF IsSome(results)
       THEN LET wins == CountWins(Votes(Unwrap(results)), [json |-> 0, proto |-> 0])
            IN  /\ table' = TableRows(Unwrap(results))
                /\ json_wins' = wins.json
                /\ proto_wins' = wins.proto
                /\ stdout' = Append(Append(stdout,
                                 "JSON vs Protocol Buffers Benchmark Results"),
                                 OverallWinnerLine(wins.json, wins.proto))
       ELSE /\ stdout' = Append(stdout, "No results to print. Run the tests first.")
            /\ UNCHANGED <<table, json_wins, proto_wins>>
    /\ pc' = PcDone
    /\ UNCHANGED <<fixtureVars, mapperVars, latencyVars, panicVars, data_size, iterations, results,
                   trial_results, clock>>

(***************************************************************************)
(* test_latency_under_load in detail: the caller and the tasks it spawns   *)
(* on the multi-threaded runtime, which run as soon as they are spawned.   *)
(***************************************************************************)
Groups == {"json", "protobuf"}
Handles == 1..concurrent_ops

At(group, at) == [group |-> group, at |-> at]
Unspawned == [at |-> "unspawned", i |-> 0, left |-> 0]

\* a handle that is dropped where the join loop would await it
HandleDetached(group, k) == TRUE

\* a join that returns as soon as the task exists
HandleDoneOnceSpawned(group, k) == workers[group][k].at # "unspawned"

\* handle.await returns once the task has run to its end
HandleDone(group, k) == workers[group][k].at = "finished"

LatencyFrame == UNCHANGED <<fixtureVars, mapperVars, panicVars, data_size, iterations, results, pc,
                            trial_results, table, json_wins, proto_wins>>

\* let json_start = Instant::now(); (the banner is printed before the first group)
StartGroup(group) ==
    /\ main_at = At(group, "start")
    /\ started' = [started EXCEPT ![group] = Some(clock)]
    /\ stdout' = IF group = "json" THEN Append(stdout, "Testing latency under load...")
                 ELSE stdout
    /\ main_at' = At(group, "spawn")
    /\ UNCHANGED <<spawned, joined, workers, times, latency_metric, clock>>
    /\ LatencyFrame

\* one pass of `for _ in 0..concurrent_ops { .. tokio::spawn(..); handles.push(handle) }`
SpawnWorker(group) ==
    /\ main_at = At(group, "spawn")
    /\ spawned[group] < concurrent_ops
    /\ workers' = [workers EXCEPT ![group][spawned[group] + 1] =
                      [at |-> "decode", i |-> 0, left |-> 0]]
    /\ spawned' = [spawned EXCEPT ![group] = @ + 1]
    /\ main_at' = IF spawned[group] + 1 = concurrent_ops THEN At(group, "join") ELSE main_at
    /\ UNCHANGED <<joined, started, times, latency_metric, clock, stdout>>
    /\ LatencyFrame

\* a task decodes the payload and starts its pause, of which pause_ms are left
WorkerDecode(group, k) ==
    /\ workers[group][k].at = "decode"
    /\ workers' = [workers EXCEPT ![group][k] =
                      [at |-> "sleeping", i |-> @.i, left |-> pause_ms]]
    /\ UNCHANGED <<main_at, spawned, joined, started, times, latency_metric, clock, stdout>>
    /\ LatencyFrame

\* a sleep that returns before its time has passed
PauseOverAtOnce(group, k) == TRUE

\* tokio::time::sleep(..).await returns: nothing of the pause is left
PauseOver(group, k) == workers[group][k].left = 0

\* the pause of a task is over: it starts its next pass or runs to its end
WorkerWake(group, k) ==
    /\ workers[group][k].at = "sleeping"
    /\ PauseOver(group, k)
    /\ workers' = [workers EXCEPT ![group][k] =
                      [at |-> IF @.i + 1 = iter_per_thread THEN "finished" ELSE "decode",
                       i |-> @.i + 1, left |-> 0]]
    /\ UNCHANGED <<main_at, spawned, joined, started, times, latency_metric, clock, stdout>>
    /\ LatencyFrame

\* one pass of `for handle in handles { handle.await.unwrap(); }`
AwaitHandle(group) ==
    /\ main_at = At(group, "join")
    /\ joined[group] < concurrent_ops
    /\ HandleDone(group, joined[group] + 1)
    /\ joined' = [joined EXCEPT ![group] = @ + 1]
    /\ main_at' = IF joined[group] + 1 = concurrent_ops THEN At(group, "elapsed")
                  ELSE main_at
    /\ UNCHANGED <<spawned, workers, started, times, latency_metric, clock, stdout>>
    /\ LatencyFrame

\* let json_time = json_start.elapsed().as_secs_f64() * 1000.0;
ReadElapsed(group) ==
    /\ main_at = At(group, "elapsed")
    /\ times' = [times EXCEPT ![group] = Some(clock - Unwrap(started[group]))]
    /\ main_at' = IF group = "json" THEN At("protobuf", "start") ELSE At("none", "return")
    /\ UNCHANGED <<spawned, joined, workers, started, latency_metric, clock, stdout>>
    /\ LatencyFrame

\* the metric is built and returned
LatencyReturn ==
    /\ main_at = At("none", "return")
    /\ LET json_time == Rat(Unwrap(times["json"]), 1)
           proto_time == Rat(Unwrap(times["protobuf"]), 1)
       IN  latency_metric' = Some(BenchmarkMetric(json_time, proto_time,
                                LowerWins(json_time, proto_time)))
    /\ main_at' = At("none", "returned")
    /\ UNCHANGED <<spawned, joined, workers, started, times, clock, stdout>>
    /\ LatencyFrame

\* the most the clock shows while the trial runs
LatencyDeadline == 2 * iter_per_thread * pause_ms + MaxSlack

\* a task whose pause is not over yet
Pausing(group, k) == workers[group][k].at = "sleeping" /\ workers[group][k].left > 0

\* a millisecond passes: at will up to the deadline, and past it while a pause
\* has to run out
Tick ==
    /\ main_at.group \in Groups
    /\ \/ clock < LatencyDeadline
       \/ \E group \in Groups, k \in Handles : Pausing(group, k)
    /\ clock' = clock + 1
    /\ workers' = [group \in Groups |-> [k \in Handles |->
                      IF Pausing(group, k) THEN [workers[group][k] EXCEPT !.left = @ - 1]
                      ELSE workers[group][k]]]
    /\ UNCHANGED <<main_at, spawned, joined, started, times, latency_metric, stdout>>
    /\ LatencyFrame

\* the state of the latency trial while it is not modelled in detail
LatencyIdle ==
    /\ main_at = At("none", "returned")
    /\ spawned = [g \in Groups |-> 0]
    /\ joined = [g \in Groups |-> 0]
    /\ workers = [g \in Groups |-> [k \in Handles |-> Unspawned]]
    /\ started = [g \in Groups |-> None]
    /\ times = [g \in Groups |-> None]
    /\ latency_metric = None

\* the state of the tester while no run is modelled
RunIdle ==
    /\ data_size = 0
    /\ iterations = 1
    /\ results = None
    /\ pc = PcDone
    /\ trial_results = NoTrialResults
    /\ clock = 0
    /\ stdout = <<>>
    /\ table = <<>>
    /\ json_wins = 0
    /\ proto_wins = 0
    /\ stderr = <<>>
    /\ failed = None

(***************************************************************************)
(* SpecFixture: the generators called repeatedly, each call recorded.      *)
(***************************************************************************)
\* the state of the mapper while it is not running
MapperIdle ==
    /\ proto_basic = None
    /\ proto_evolved = None
    /\ json_evolved_data = None
    /\ evolved = None
    /\ basic = None
    /\ basic_again = None
    /\ filtered_data = None

InitFixture ==
    /\ calls = <<>>
    /\ MapperIdle
    /\ RunIdle
    /\ LatencyIdle

\* one call generate_test_data(size), its arguments and result recorded
CallGenerateTestData(size) ==
    /\ Len(calls) < MaxCalls
    /\ calls' = Append(calls, [fn     |-> "generate_test_data",
                               size   |-> size,
                               result |-> generate_test_data(size)])
    /\ UNCHANGED <<mapperVars, runVars, latencyVars, panicVars>>

\* one call generate_evolved_test_data(size), its arguments and result recorded
CallGenerateEvolvedTestData(size) ==
    /\ Len(calls) < MaxCalls
    /\ calls' = Append(calls, [fn     |-> "generate_evolved_test_data",
                               size   |-> size,
                               result |-> generate_evolved_test_data(size)])
    /\ UNCHANGED <<mapperVars, runVars, latencyVars, panicVars>>

NextFixture ==
    \/ \E size \in 0..MaxSize : CallGenerateTestData(size)
    \/ \E size \in 0..MaxSize : CallGenerateEvolvedTestData(size)

SpecFixture == InitFixture /\ [][NextFixture]_vars

(***************************************************************************)
(* Claims about the fixture generators (SpecFixture).                      *)
(***************************************************************************)
\* the number of entries of a HashMap, its keys being pairwise distinct
MapLen(m) == Cardinality(DOMAIN m)

\* a record with size phones, max(1, size div 2) addresses, size metadata entries
HasCounts(rec, size) ==
    /\ Len(rec.phones) = size
    /\ Len(rec.addresses) = (IF size \div 2 >= 1 THEN size \div 2 ELSE 1)
    /\ (size <= 1 => Len(rec.addresses) = 1)
    /\ MapLen(rec.metadata) = size

\* C3: for every size n, both records returned by generate_test_data(n) and both
\* returned by generate_evolved_test_data(n) have exactly n phone entries, exactly
\* max(1, n div 2) address entries (one when n is 0 or 1) and exactly n metadata
\* entries with pairwise distinct keys.
C3_FixtureCounts ==
    \A c \in 1..Len(calls) :
        /\ HasCounts(calls[c].result.json, calls[c].size)
        /\ HasCounts(calls[c].result.proto, calls[c].size)

\* both generators have returned, one for a size below 2 and one for a size above 3
C3_Witness ==
    /\ \E c \in 1..Len(calls) :
          calls[c].fn = "generate_test_data" /\ calls[c].size <= 1
    /\ \E c \in 1..Len(calls) :
          calls[c].fn = "generate_evolved_test_data" /\ calls[c].size >= 4

SeqUpTo(S, n) == UNION {[1..k -> S] : k \in 0..n}

ArbMetadata == {EmptyMap, Insert(EmptyMap, "key0", "value0")}

\* base records other than the generated ones
ArbPhoneNumbers == [number : {"555-1000"}, type : {MOBILE, HOME, WORK, OTHER_KIND}]
ArbAddresses ==
    [street : {"", "100 Main St"}, city : {"City 0"}, state : {"State 0"},
     zip : {"10000"}, country : {"Country"}]
ArbPersons ==
    [name : {"Test Person"}, id : {12345}, email : {"test@example.com"},
     phones : SeqUpTo(ArbPhoneNumbers, MaxArbPhones),
     addresses : SeqUpTo(ArbAddresses, MaxArbAddresses),
     metadata : ArbMetadata]

\* evolved records other than the generated ones
ArbEvolvedPhoneNumbers ==
    [number : {"555-1000"}, type : {MOBILE, HOME, WORK, OTHER_KIND}, is_primary : BOOLEAN]
ArbEvolvedAddresses ==
    [street : {"100 Main St"}, city : {"City 0"}, state : {"State 0"},
     zip : {"10000"}, country : {"Country"},
     additional_info : {"", "Extra address details"}]
ArbEvolvedPersons ==
    [name : {"Test Person"}, id : {12345}, email : {"test@example.com"},
     phones : SeqUpTo(ArbEvolvedPhoneNumbers, MaxArbPhones),
     addresses : SeqUpTo(ArbEvolvedAddresses, MaxArbAddresses),
     metadata : ArbMetadata,
     additional_field : {"", "New information"},
     priority : {0, 5}]

\* no fixture yet, or a base record, or an evolved record, given from outside
InitMapper ==
    /\ calls = <<>>
    /\ RunIdle
    /\ LatencyIdle
    /\ json_evolved_data = None
    /\ evolved = None
    /\ basic = None
    /\ basic_again = None
    /\ filtered_data = None
    /\ \/ proto_basic = None /\ proto_evolved = None
       \/ proto_basic \in {Some(b) : b \in ArbPersons} /\ proto_evolved = None
       \/ proto_basic = None /\ proto_evolved \in {Some(e) : e \in ArbEvolvedPersons}

\* let (_, proto_basic) = generate_test_data(self.data_size);
\* let (json_evolved_data, proto_evolved) = generate_evolved_test_data(self.data_size);
SchemaEvolutionFixtures(size) ==
    /\ proto_basic = None
    /\ proto_evolved = None
    /\ proto_basic' = Some(generate_test_data(size).proto)
    /\ json_evolved_data' = Some(generate_evolved_test_data(size).json)
    /\ proto_evolved' = Some(generate_evolved_test_data(size).proto)
    /\ UNCHANGED <<calls, evolved, basic, basic_again, filtered_data, runVars, latencyVars, panicVars>>

\* one iteration of the backward loop: encode with the original schema, decode,
\* map the old record to the new one
BackwardIteration ==
    /\ IsSome(proto_basic)
    /\ \E order \in Orders(DOMAIN Unwrap(proto_basic).metadata) :
          LET orig_bytes == Person_encode(Unwrap(proto_basic), order)
              basic_decoded == Person_decode(orig_bytes)
          IN  evolved' = Some(widen(basic_decoded))
    /\ UNCHANGED <<calls, proto_basic, proto_evolved, json_evolved_data, basic, basic_again, filtered_data, runVars, latencyVars, panicVars>>

\* one iteration of the forward loop: encode the evolved record, decode, map the
\* new record to the old one
ForwardIteration ==
    /\ IsSome(proto_evolved)
    /\ \E order \in Orders(DOMAIN Unwrap(proto_evolved).metadata) :
          LET evolved_bytes == EvolvedPerson_encode(Unwrap(proto_evolved), order)
              evolved_decoded == EvolvedPerson_decode(evolved_bytes)
          IN  basic' = Some(narrow(evolved_decoded))
    /\ UNCHANGED <<calls, proto_basic, proto_evolved, json_evolved_data, evolved, basic_again, filtered_data, runVars, latencyVars, panicVars>>

\* serde_json::Value::Null
Null == [json |-> "null"]

\* Serialize for Option<T>: the value itself, or null
OptionValue(option) == IF IsSome(option) THEN Unwrap(option) ELSE Null

\* the document serde_json::from_str reads back from the text of an evolved
\* phone: one member per field of JsonPhoneNumberEvolved, under the field's name
JsonPhoneNumberEvolved_to_value(phone) ==
    [number |-> phone.number,
     type_ |-> phone.type_,
     is_primary |-> OptionValue(phone.is_primary)]

\* the same for JsonAddressEvolved
JsonAddressEvolved_to_value(addr) ==
    [street |-> addr.street,
     city |-> addr.city,
     state |-> addr.state,
     zip |-> addr.zip,
     country |-> addr.country,
     additional_info |-> OptionValue(addr.additional_info)]

\* the same for JsonPersonEvolved: the lists become arrays in the same order,
\* the map becomes an object
JsonPersonEvolved_to_value(person) ==
    [name |-> person.name,
     id |-> person.id,
     email |-> person.email,
     phones |-> [k \in 1..Len(person.phones) |->
                    JsonPhoneNumberEvolved_to_value(person.phones[k])],
     addresses |-> [k \in 1..Len(person.addresses) |->
                    JsonAddressEvolved_to_value(person.addresses[k])],
     metadata |-> person.metadata,
     additional_field |-> OptionValue(person.additional_field),
     priority |-> OptionValue(person.priority)]

\* value[key] of serde_json::Value: the member, or Null when there is none
Index(value, key) == IF key \in DOMAIN value THEN value[key] ELSE Null

\* a phone of the filtered document that is the phone of the full one
FilteredPhoneWhole(phone) == phone

\* the closure that builds filtered_phone
FilteredPhone(phone) ==
    LET with_number == Insert(EmptyMap, "number", Index(phone, "number"))
    IN  Insert(with_number, "type_", Index(phone, "type_"))

\* the closure that builds filtered_addr
FilteredAddr(addr) ==
    LET with_street == Insert(EmptyMap, "street", Index(addr, "street"))
        with_city == Insert(with_street, "city", Index(addr, "city"))
        with_state == Insert(with_city, "state", Index(addr, "state"))
        with_zip == Insert(with_state, "zip", Index(addr, "zip"))
    IN  Insert(with_zip, "country", Index(addr, "country"))

\* the body of the loop over the parsed document, up to the map it has built
FilteredData(parsed_full) ==
    LET with_name == Insert(EmptyMap, "name", Index(parsed_full, "name"))
        with_id == Insert(with_name, "id", Index(parsed_full, "id"))
        with_email == Insert(with_id, "email", Index(parsed_full, "email"))
        phones == Index(parsed_full, "phones")
        filtered_phones == [k \in 1..Len(phones) |-> FilteredPhone(phones[k])]
        with_phones == Insert(with_email, "phones", filtered_phones)
        addresses == Index(parsed_full, "addresses")
        filtered_addresses == [k \in 1..Len(addresses) |-> FilteredAddr(addresses[k])]
        with_addresses == Insert(with_phones, "addresses", filtered_addresses)
    IN  Insert(with_addresses, "metadata", Index(parsed_full, "metadata"))

\* one iteration of the text loop: read the text of the evolved record back as
\* a document, keep the members of the original schema
JsonFilterIteration ==
    /\ IsSome(json_evolved_data)
    /\ LET parsed_full == JsonPersonEvolved_to_value(Unwrap(json_evolved_data))
       IN  filtered_data' = Some(FilteredData(parsed_full))
    /\ UNCHANGED <<calls, proto_basic, proto_evolved, json_evolved_data, evolved, basic, basic_again, runVars, latencyVars, panicVars>>

\* the forward mapping applied to the result of the backward mapping
NarrowWidened ==
    /\ IsSome(evolved)
    /\ basic_again' = Some(narrow(Unwrap(evolved)))
    /\ UNCHANGED <<calls, proto_basic, proto_evolved, json_evolved_data, evolved, basic, filtered_data, runVars, latencyVars, panicVars>>

NextMapper ==
    \/ \E size \in 0..MaxMapSize : SchemaEvolutionFixtures(size)
    \/ BackwardIteration
    \/ ForwardIteration
    \/ JsonFilterIteration
    \/ NarrowWidened

SpecMapper == InitMapper /\ [][NextMapper]_vars

(***************************************************************************)
(* Claims about the two mappings (SpecMapper).                             *)
(***************************************************************************)
BaseFields == {"name", "id", "email", "phones", "addresses", "metadata"}
BasePhoneFields == {"number", "type"}
BaseAddressFields == {"street", "city", "state", "zip", "country"}

\* the fixtures of the trial came from the two generators
Generated == IsSome(proto_basic) /\ IsSome(proto_evolved) /\ IsSome(json_evolved_data)

\* the base record b and the evolved record e agree on every shared field,
\* element by element and in the same order
SharedFieldsAgree(b, e) ==
    /\ e.name = b.name
    /\ e.id = b.id
    /\ e.email = b.email
    /\ Len(e.phones) = Len(b.phones)
    /\ \A k \in 1..Len(b.phones) :
          /\ e.phones[k].number = b.phones[k].number
          /\ e.phones[k].type = b.phones[k].type
    /\ Len(e.addresses) = Len(b.addresses)
    /\ \A k \in 1..Len(b.addresses) :
          \A f \in BaseAddressFields : e.addresses[k][f] = b.addresses[k][f]
    /\ DOMAIN e.metadata = DOMAIN b.metadata
    /\ \A key \in DOMAIN b.metadata : e.metadata[key] = b.metadata[key]

\* C5: narrow applied to widen of a base record reproduces that base record: same
\* name, id, email, the same phones and addresses element by element in the same
\* order, the same metadata.
C5_RoundTrip ==
    IsSome(basic_again) =>
        /\ Unwrap(basic_again) = Unwrap(proto_basic)
        /\ SharedFieldsAgree(Unwrap(proto_basic), Unwrap(basic_again))

\* the round trip was made on a generated base record with phones of all three
\* kinds, two addresses and metadata
C5_Witness ==
    /\ Generated
    /\ IsSome(basic_again)
    /\ Len(Unwrap(proto_basic).phones) >= 4
    /\ Len(Unwrap(proto_basic).addresses) >= 2
    /\ Unwrap(basic_again).phones[2].type = HOME

\* C6: widen copies every shared field verbatim, keeps the order and number of
\* phones and addresses, and fills is_primary = (kind = MOBILE) for each phone,
\* additional_info = "" for each address, additional_field = "" and priority = 0.
C6_WidenDefaults ==
    IsSome(evolved) =>
        LET b == Unwrap(proto_basic)
            e == Unwrap(evolved)
        IN  /\ SharedFieldsAgree(b, e)
            /\ \A k \in 1..Len(e.phones) :
                  e.phones[k].is_primary = (b.phones[k].type = MOBILE)
            /\ \A k \in 1..Len(e.addresses) : e.addresses[k].additional_info = ""
            /\ e.additional_field = ""
            /\ e.priority = 0

\* widen has mapped a base record holding a MOBILE phone after a phone of another
\* kind, and an address
C6_Witness ==
    /\ IsSome(evolved)
    /\ Len(Unwrap(evolved).phones) >= 2
    /\ Unwrap(proto_basic).phones[1].type /= MOBILE
    /\ Unwrap(evolved).phones[2].is_primary
    /\ Len(Unwrap(evolved).addresses) >= 1

\* C7: narrow of any evolved record, also one with a phone of kind OTHER, yields a
\* base record with every shared field value unchanged and in the same order, from
\* which exactly the four evolved-only fields are absent.
C7_NarrowFrame ==
    IsSome(basic) =>
        LET e == Unwrap(proto_evolved)
            r == Unwrap(basic)
        IN  /\ SharedFieldsAgree(r, e)
            /\ DOMAIN r = BaseFields
            /\ (DOMAIN e) \ (DOMAIN r) = {"additional_field", "priority"}
            /\ \A k \in 1..Len(r.phones) :
                  /\ DOMAIN r.phones[k] = BasePhoneFields
                  /\ (DOMAIN e.phones[k]) \ (DOMAIN r.phones[k]) = {"is_primary"}
            /\ \A k \in 1..Len(r.addresses) :
                  /\ DOMAIN r.addresses[k] = BaseAddressFields
                  /\ (DOMAIN e.addresses[k]) \ (DOMAIN r.addresses[k]) = {"additional_info"}

\* narrow has mapped an evolved record that is not a generated one: a primary phone
\* of kind OTHER, an address with additional_info, a priority, metadata
C7_Witness ==
    /\ IsSome(basic)
    /\ Len(Unwrap(proto_evolved).phones) >= 2
    /\ Unwrap(proto_evolved).phones[2].type = OTHER_KIND
    /\ Unwrap(proto_evolved).phones[2].is_primary
    /\ Unwrap(basic).phones[2].type = OTHER_KIND
    /\ Len(Unwrap(proto_evolved).addresses) >= 1
    /\ Unwrap(proto_evolved).addresses[1].additional_info /= ""
    /\ Unwrap(proto_evolved).priority = 5
    /\ DOMAIN Unwrap(proto_evolved).metadata /= {}

\* the kinds of a phone list start at MOBILE and cycle MOBILE, HOME, WORK
KindsCycle(kinds) ==
    /\ \A k \in 1..Len(kinds) : kinds[k] \in {MOBILE, HOME, WORK}
    /\ (Len(kinds) >= 1 => kinds[1] = MOBILE)
    /\ \A k \in 1..(Len(kinds) - 1) :
          kinds[k + 1] = (IF kinds[k] = WORK THEN MOBILE ELSE kinds[k] + 1)

\* C8: the kind of the phone at index i of a generated record is i mod 3, never
\* OTHER; in a record produced by widen and in both evolved records produced by
\* generate_evolved_test_data, is_primary is true exactly for the MOBILE phones.
C8_PrimaryIffMobile ==
    /\ Generated =>
          LET b == Unwrap(proto_basic)
              j == Unwrap(json_evolved_data)
              e == Unwrap(proto_evolved)
          IN  /\ KindsCycle([k \in 1..Len(b.phones) |-> b.phones[k].type])
              /\ KindsCycle([k \in 1..Len(j.phones) |-> j.phones[k].type_])
              /\ KindsCycle([k \in 1..Len(e.phones) |-> e.phones[k].type])
              /\ \A k \in 1..Len(j.phones) :
                    j.phones[k].is_primary = Some(j.phones[k].type_ = MOBILE)
              /\ \A k \in 1..Len(e.phones) :
                    e.phones[k].is_primary = (e.phones[k].type = MOBILE)
    /\ IsSome(evolved) =>
          \A k \in 1..Len(Unwrap(evolved).phones) :
              Unwrap(evolved).phones[k].is_primary
                  = (Unwrap(evolved).phones[k].type = MOBILE)

\* the generators have produced records with a second MOBILE phone at index 3, and
\* widen has mapped the generated base record
C8_Witness ==
    /\ Generated
    /\ IsSome(evolved)
    /\ Len(Unwrap(proto_evolved).phones) >= 5
    /\ Unwrap(proto_evolved).phones[4].is_primary
    /\ Unwrap(json_evolved_data).phones[4].is_primary = Some(TRUE)
    /\ Unwrap(evolved).phones[4].is_primary
    /\ ~Unwrap(evolved).phones[5].is_primary

(***************************************************************************)
(* Failing operations.  Every encode, decode and compress call of the      *)
(* trials returns a Result that the code unwraps; an Err panics.  A panic  *)
(* is reported on stderr with the place of the unwrap, and unwinds through *)
(* run_all_tests, async_main and block_on, ending the process.             *)
(***************************************************************************)
\* an unwrap of a trial: join is the line of `handle.await.unwrap()` when the
\* unwrap is inside a spawned task, and 0 otherwise
Site(trial, format, line, join) ==
    [trial |-> trial, format |-> format, line |-> line, join |-> join]

PanicSites ==
    {Site("serialization", "text", 78, 0), Site("serialization", "binary", 86, 0),
     Site("deserialization", "text", 111, 0), Site("deserialization", "binary", 113, 0),
     Site("deserialization", "text", 118, 0), Site("deserialization", "binary", 125, 0),
     Site("payload_size", "text", 150, 0), Site("payload_size", "text", 155, 0),
     Site("payload_size", "text", 156, 0), Site("payload_size", "binary", 161, 0),
     Site("payload_size", "binary", 166, 0), Site("payload_size", "binary", 167, 0),
     Site("cpu_usage", "text", 207, 0), Site("cpu_usage", "text", 208, 0),
     Site("cpu_usage", "binary", 216, 0), Site("cpu_usage", "binary", 217, 0),
     Site("memory_usage", "text", 245, 0), Site("memory_usage", "text", 246, 0),
     Site("memory_usage", "binary", 257, 0), Site("memory_usage", "binary", 258, 0),
     Site("network_transfer", "text", 287, 0), Site("network_transfer", "binary", 291, 0),
     Site("latency_under_load", "text", 330, 0),
     Site("latency_under_load", "binary", 332, 0),
     Site("latency_under_load", "text", 343, 352),
     Site("latency_under_load", "binary", 365, 374),
     Site("throughput", "text", 430, 0), Site("throughput", "text", 431, 0),
     Site("throughput", "binary", 444, 0), Site("throughput", "binary", 445, 0),
     Site("schema_evolution", "binary", 479, 0), Site("schema_evolution", "binary", 485, 0),
     Site("schema_evolution", "binary", 521, 0), Site("schema_evolution", "binary", 527, 0),
     Site("schema_evolution", "text", 556, 0), Site("schema_evolution", "text", 560, 0),
     Site("schema_evolution", "text", 601, 0)}

\* a report that gives the message and no place
PanicReportMessageOnly(line) ==
    [message |-> "called Result::unwrap() on an Err value", location |-> ""]

\* what the panic hook prints for an unwrap of an Err at the given line
PanicReport(line) ==
    [message |-> "called Result::unwrap() on an Err value",
     location |-> "src/benchmark.rs:" \o ToString(line)]

\* the reports of a failure at site: a panic inside a task is reported there, and
\* again where the caller unwraps the handle
Reported(site) ==
    IF site.join = 0 THEN <<PanicReport(site.line)>>
    ELSE <<PanicReport(site.line), PanicReport(site.join)>>

\* the banner a trial prints when it is entered
Banner(trial) ==
    CASE trial = "serialization" -> "Testing serialization speed..."
      [] trial = "deserialization" -> "Testing deserialization speed..."
      [] trial = "payload_size" -> "Testing payload size..."
      [] trial = "cpu_usage" -> "Testing CPU usage (via execution time)..."
      [] trial = "memory_usage" -> "Testing memory usage (estimation)..."
      [] trial = "network_transfer" -> "Testing network transfer time (simulation)..."
      [] trial = "latency_under_load" -> "Testing latency under load..."
      [] trial = "parser_init" -> "Testing parser initialization time..."
      [] trial = "throughput" -> "Testing throughput..."
      [] trial = "schema_evolution" -> "Testing schema evolution handling..."

\* the process has ended in a panic
PcAborted == Len(TrialOrder) + 4

\* a caller that goes on with its next statement after the failure
AfterPanicGoOn(at) == at + 1

\* where async_main is after a panic in the statement it was at
AfterPanic(at) == PcAborted

\* the trial that is called next fails at site
Panics(site) ==
    /\ NextTrial = site.trial
    /\ stdout' = Append(stdout, Banner(site.trial))
    /\ stderr' = stderr \o Reported(site)
    /\ failed' = Some([trial |-> site.trial, format |-> site.format])
    /\ pc' = AfterPanic(pc)
    /\ UNCHANGED <<fixtureVars, mapperVars, latencyVars, data_size, iterations, results,
                   trial_results, clock, table, json_wins, proto_wins>>

(***************************************************************************)
(* Spec: async_main without a --test argument: run_all_tests, then         *)
(* print_results.                                                          *)
(***************************************************************************)
\* PerformanceTester::new(args.size, args.iterations)
Init ==
    /\ calls = <<>>
    /\ MapperIdle
    /\ data_size \in 0..MaxRunSize
    /\ iterations \in 1..MaxIterations
    /\ results = None
    /\ pc = PcBegin
    /\ trial_results = NoTrialResults
    /\ clock = 0
    /\ stdout = <<>>
    /\ table = <<>>
    /\ json_wins = 0
    /\ proto_wins = 0
    /\ stderr = <<>>
    /\ failed = None
    /\ LatencyIdle

Next ==
    \/ RunAllTestsBegin
    \/ test_serialization_speed
    \/ test_deserialization_speed
    \/ test_payload_size
    \/ test_cpu_usage
    \/ test_memory_usage
    \/ test_network_transfer
    \/ test_latency_under_load
    \/ test_parser_initialization
    \/ test_throughput
    \/ test_schema_evolution
    \/ StoreResults
    \/ print_results

Spec == Init /\ [][Next]_vars

(***************************************************************************)
(* SpecPanic: the full run in which any unwrapped operation may fail.      *)
(***************************************************************************)
NextPanic ==
    \/ Next
    \/ \E site \in PanicSites : Panics(site)

SpecPanic == Init /\ [][NextPanic]_vars

(***************************************************************************)
(* SpecPayload: two runs of the program with --test payload, each for any  *)
(* size and with any iteration order of the two metadata maps.             *)
(***************************************************************************)
InitPayload ==
    /\ calls = <<>>
    /\ MapperIdle
    /\ RunIdle
    /\ LatencyIdle

NextPayload == \E size \in 0..MaxPayloadSize : PayloadRun(size)

SpecPayload == InitPayload /\ [][NextPayload]_vars

(***************************************************************************)
(* SpecVote: print_results on a tester whose stored result is any          *)
(* composite of the eleven winners, or absent.                             *)
(***************************************************************************)
Winners == {"JSON", "Protobuf"}

\* a composite result with the given eleven winners, its numbers left at zero
CompositeWith(w) ==
    LET metric(winner) == BenchmarkMetric(Rat(0, 1), Rat(0, 1), winner)
    IN  [serialization      |-> metric(w[1]),
         deserialization    |-> metric(w[2]),
         payload_size       |-> [uncompressed |-> metric(w[3]), compressed |-> metric(w[4])],
         cpu_usage          |-> metric(w[5]),
         memory_usage       |-> metric(w[6]),
         network_transfer   |-> metric(w[7]),
         latency_under_load |-> metric(w[8]),
         parser_init        |-> metric(w[9]),
         throughput         |-> ThroughputMetric(Rat(0, 1), Rat(0, 1), w[10]),
         schema_evolution   |-> SchemaEvolutionMetric(Rat(0, 1), Rat(0, 1), Rat(0, 1),
                                    Rat(0, 1), w[11])]

InitVote ==
    /\ calls = <<>>
    /\ MapperIdle
    /\ data_size = 0
    /\ iterations = 1
    /\ results \in {None} \cup {Some(CompositeWith(w)) : w \in [1..11 -> Winners]}
    /\ pc = PcPrint
    /\ trial_results = NoTrialResults
    /\ clock = 0
    /\ stdout = <<>>
    /\ table = <<>>
    /\ json_wins = 0
    /\ proto_wins = 0
    /\ stderr = <<>>
    /\ failed = None
    /\ LatencyIdle

NextVote == print_results

SpecVote == InitVote /\ [][NextVote]_vars

(***************************************************************************)
(* SpecLatency: async_main with --test latency: the latency trial alone,   *)
(* its tasks interleaved in every way.                                     *)
(***************************************************************************)
InitLatency ==
    /\ calls = <<>>
    /\ MapperIdle
    /\ RunIdle
    /\ main_at = At("json", "start")
    /\ spawned = [g \in Groups |-> 0]
    /\ joined = [g \in Groups |-> 0]
    /\ workers = [g \in Groups |-> [k \in Handles |-> Unspawned]]
    /\ started = [g \in Groups |-> None]
    /\ times = [g \in Groups |-> None]
    /\ latency_metric = None

NextLatency ==
    \/ \E group \in Groups : StartGroup(group)
    \/ \E group \in Groups : SpawnWorker(group)
    \/ \E group \in Groups, k \in Handles : WorkerDecode(group, k)
    \/ \E group \in Groups, k \in Handles : WorkerWake(group, k)
    \/ \E group \in Groups : AwaitHandle(group)
    \/ \E group \in Groups : ReadElapsed(group)
    \/ LatencyReturn
    \/ Tick

SpecLatency == InitLatency /\ [][NextLatency]_vars

(***************************************************************************)
(* Claims about the verdicts and the run.                                  *)
(***************************************************************************)
\* the eleven recorded sub-metrics and the winner each one names
SubMetrics ==
    {"serialization", "deserialization", "uncompressed size", "compressed size", "cpu",
     "memory", "network", "latency under load", "parser init", "throughput",
     "schema evolution"}

NamedWinner(r, m) ==
    CASE m = "serialization" -> r.serialization.winner
      [] m = "deserialization" -> r.deserialization.winner
      [] m = "uncompressed size" -> r.payload_size.uncompressed.winner
      [] m = "compressed size" -> r.payload_size.compressed.winner
      [] m = "cpu" -> r.cpu_usage.winner
      [] m = "memory" -> r.memory_usage.winner
      [] m = "network" -> r.network_transfer.winner
      [] m = "latency under load" -> r.latency_under_load.winner
      [] m = "parser init" -> r.parser_init.winner
      [] m = "throughput" -> r.throughput.winner
      [] m = "schema evolution" -> r.schema_evolution.winner

\* how many sub-metrics of r name format as their winner
NamedBy(r, format) == Cardinality({m \in SubMetrics : NamedWinner(r, m) = format})

DisplayName(format) == IF format = "JSON" THEN "JSON" ELSE "Protocol Buffers"
OtherFormat(format) == IF format = "JSON" THEN "Protobuf" ELSE "JSON"

\* C1: once print_results has run on a stored result, the format that strictly
\* more of the eleven sub-metrics name as winner is reported as the overall winner,
\* with its count first and the other format's count second, and the two counters
\* hold the two counts.
C1_MajorityVote ==
    (pc = PcDone /\ IsSome(results)) =>
        /\ json_wins = NamedBy(Unwrap(results), "JSON")
        /\ proto_wins = NamedBy(Unwrap(results), "Protobuf")
        /\ \A format \in Winners :
              LET mine == NamedBy(Unwrap(results), format)
                  theirs == NamedBy(Unwrap(results), OtherFormat(format))
              IN  mine > theirs =>
                      stdout[Len(stdout)] =
                          "Overall winner: " \o DisplayName(format) \o " (" \o ToString(mine)
                          \o " wins vs " \o ToString(theirs) \o " wins)"

\* print_results has run on a result in which 7 of the 11 sub-metrics name JSON
C1_Witness ==
    /\ pc = PcDone
    /\ IsSome(results)
    /\ NamedBy(Unwrap(results), "JSON") = 7
    /\ NamedBy(Unwrap(results), "Protobuf") = 4
    /\ stdout[Len(stdout)] = "Overall winner: JSON (7 wins vs 4 wins)"

\* the winner is the format of the lower value, if the values differ
LowerIsWinner(json, protobuf, winner) ==
    /\ Less(json, protobuf) => winner = "JSON"
    /\ Less(protobuf, json) => winner = "Protobuf"

\* the winner is the format of the higher value, if the values differ
HigherIsWinner(json, protobuf, winner) ==
    /\ Less(protobuf, json) => winner = "JSON"
    /\ Less(json, protobuf) => winner = "Protobuf"

PlainTrials ==
    {"serialization", "deserialization", "cpu_usage", "memory_usage", "network_transfer",
     "latency_under_load", "parser_init"}

\* C2: in every value a trial has returned, if the two measured values differ the
\* winner is the format with the lower one (for schema evolution: the text time
\* against the binary average), except in the throughput value, where the winner
\* is the format with the higher one.
C2_WinnerRule ==
    /\ \A t \in PlainTrials :
          IsSome(trial_results[t]) =>
              LET v == Unwrap(trial_results[t])
              IN  LowerIsWinner(v.json, v.protobuf, v.winner)
    /\ IsSome(trial_results["payload_size"]) =>
          LET v == Unwrap(trial_results["payload_size"])
          IN  /\ LowerIsWinner(v.uncompressed.json, v.uncompressed.protobuf,
                               v.uncompressed.winner)
              /\ LowerIsWinner(v.compressed.json, v.compressed.protobuf,
                               v.compressed.winner)
    /\ IsSome(trial_results["schema_evolution"]) =>
          LET v == Unwrap(trial_results["schema_evolution"])
          IN  LowerIsWinner(v.json, v.protobuf_average, v.winner)
    /\ IsSome(trial_results["throughput"]) =>
          LET v == Unwrap(trial_results["throughput"])
          IN  HigherIsWinner(v.json, v.protobuf, v.winner)

\* all ten trials have returned; the serialization values differ and JSON, the
\* lower, won; the throughput values differ and JSON, the higher, won
C2_Witness ==
    /\ \A t \in DOMAIN trial_results : IsSome(trial_results[t])
    /\ LET s == Unwrap(trial_results["serialization"])
           t == Unwrap(trial_results["throughput"])
       IN  /\ Less(s.json, s.protobuf)
           /\ s.winner = "JSON"
           /\ Less(t.protobuf, t.json)
           /\ t.winner = "JSON"

\* C9: the elapsed time of a format's group is read only when every worker of the
\* group has run all its decode-then-pause steps to the end.
C9_ElapsedAfterJoin ==
    \A group \in Groups :
        IsSome(times[group]) =>
            \A k \in Handles :
                /\ workers[group][k].at = "finished"
                /\ workers[group][k].i = iter_per_thread

\* both elapsed times have been read, and the groups ran for different times
C9_Witness ==
    /\ IsSome(times["json"])
    /\ IsSome(times["protobuf"])
    /\ Unwrap(times["json"]) > Unwrap(times["protobuf"])
    /\ \A group \in Groups, k \in Handles : workers[group][k].i = iter_per_thread

\* the ten trials in the order the run is to call them, with their banners
FixedOrder ==
    <<"serialization", "deserialization", "payload_size", "cpu_usage", "memory_usage",
      "network_transfer", "latency_under_load", "parser_init", "throughput",
      "schema_evolution">>

FixedBanners ==
    <<"Testing serialization speed...", "Testing deserialization speed...",
      "Testing payload size...", "Testing CPU usage (via execution time)...",
      "Testing memory usage (estimation)...",
      "Testing network transfer time (simulation)...", "Testing latency under load...",
      "Testing parser initialization time...", "Testing throughput...",
      "Testing schema evolution handling...">>

\* how often line occurs on stdout
Occurrences(line) == Cardinality({k \in 1..Len(stdout) : stdout[k] = line})

\* C10: the trials run so far are a prefix of the fixed order, each run once: after
\* the opening line, the k-th line on stdout is the banner of the k-th trial, no
\* banner occurs twice, and the
\* trials that have returned are exactly those before the caller's position.  The
\* stored result is present only when all ten have returned, and then each of its
\* fields is the value that trial returned.
C10_FixedOrderThenStore ==
    /\ \A k \in 1..Len(FixedOrder) :
          /\ IsSome(trial_results[FixedOrder[k]]) <=> k < pc
          /\ k < pc => stdout[k + 1] = FixedBanners[k]
          /\ Occurrences(FixedBanners[k]) = IF k < pc THEN 1 ELSE 0
    /\ IsSome(results) =>
          /\ pc > PcStore
          /\ \A k \in 1..Len(FixedOrder) :
                /\ IsSome(trial_results[FixedOrder[k]])
                /\ Unwrap(results)[FixedOrder[k]] = Unwrap(trial_results[FixedOrder[k]])

\* the tenth trial has returned and the result is stored
C10_Witness ==
    /\ IsSome(results)
    /\ IsSome(trial_results["schema_evolution"])
    /\ Len(stdout) > Len(FixedOrder) + 1
    /\ stdout[Len(FixedOrder) + 1] = "Testing schema evolution handling..."
    /\ Unwrap(results).throughput = Unwrap(trial_results["throughput"])

\* the place of trial in the order of the run
PlaceOf(trial) == CHOOSE k \in 1..Len(FixedOrder) : FixedOrder[k] = trial

\* C11: once an operation of a trial has failed, the run is over at that trial: the
\* trial and all later ones have returned nothing, the last line on stdout is the
\* failing trial's banner, the stored result is absent, and no table row and no
\* vote has been produced.
C11_AbortsWithoutReport ==
    IsSome(failed) =>
        LET k == PlaceOf(Unwrap(failed).trial)
        IN  /\ \A j \in k..Len(FixedOrder) : trial_results[FixedOrder[j]] = None
            /\ Len(stdout) = k + 1
            /\ stdout[k + 1] = FixedBanners[k]
            /\ results = None
            /\ table = <<>>
            /\ json_wins = 0
            /\ proto_wins = 0

\* the fourth trial, after three that returned, has failed in the binary format
C11_Witness ==
    /\ failed = Some([trial |-> "cpu_usage", format |-> "binary"])
    /\ IsSome(trial_results["payload_size"])
    /\ trial_results["cpu_usage"] = None
    /\ results = None
    /\ Len(stderr) = 1

\* the reports a failure at site leaves on stderr
ReportsOf(site) == {Reported(site)[i] : i \in 1..Len(Reported(site))}

SameContent(j, p) ==
    /\ j.name = p.name
    /\ j.id = p.id
    /\ j.email = p.email
    /\ Len(j.phones) = Len(p.phones)
    /\ \A k \in 1..Len(j.phones) :
          /\ j.phones[k].number = p.phones[k].number
          /\ j.phones[k].type_ = p.phones[k].type
    /\ Len(j.addresses) = Len(p.addresses)
    /\ \A k \in 1..Len(j.addresses) :
          \A f \in BaseAddressFields : j.addresses[k][f] = p.addresses[k][f]
    /\ j.metadata = p.metadata

\* the optional evolved-only fields of j are present and equal those of p
SameEvolvedOnly(j, p) ==
    /\ \A k \in 1..Len(j.phones) :
          /\ IsSome(j.phones[k].is_primary)
          /\ Unwrap(j.phones[k].is_primary) = p.phones[k].is_primary
    /\ \A k \in 1..Len(j.addresses) :
          /\ IsSome(j.addresses[k].additional_info)
          /\ Unwrap(j.addresses[k].additional_info) = p.addresses[k].additional_info
    /\ IsSome(j.additional_field)
    /\ Unwrap(j.additional_field) = p.additional_field
    /\ IsSome(j.priority)
    /\ Unwrap(j.priority) = p.priority

\* C13: the two records returned by one call of either generator hold the same
\* name, id, email, phone sequence of (number, kind), address sequence and metadata
\* mapping, and the two returned by generate_evolved_test_data also the same
\* is_primary, additional_info, additional_field and priority.
C13_SameLogicalContent ==
    \A c \in 1..Len(calls) :
        /\ SameContent(calls[c].result.json, calls[c].result.proto)
        /\ calls[c].fn = "generate_evolved_test_data" =>
              SameEvolvedOnly(calls[c].result.json, calls[c].result.proto)

\* both generators have returned for a size with all three kinds of phone and
\* two addresses
C13_Witness ==
    /\ \E c \in 1..Len(calls) :
          /\ calls[c].fn = "generate_test_data"
          /\ calls[c].size >= 4
          /\ calls[c].result.proto.phones[3].type = WORK
    /\ \E c \in 1..Len(calls) :
          /\ calls[c].fn = "generate_evolved_test_data"
          /\ calls[c].size >= 4
          /\ calls[c].result.proto.phones[1].is_primary
          /\ ~calls[c].result.proto.phones[2].is_primary
          /\ Len(calls[c].result.json.addresses) = 2

\* twice the value c equals the sum of a and b
TwiceIsSum(c, a, b) ==
    2 * c.num * a.den * b.den = (a.num * b.den + b.num * a.den) * c.den

\* the value j is strictly below the mean of a and b
BelowMean(j, a, b) ==
    2 * j.num * a.den * b.den < (a.num * b.den + b.num * a.den) * j.den

C15_RawLengthsFixed ==
    \A a, b \in 1..Len(calls) :
        calls[a].size = calls[b].size =>
            /\ calls[a].result.uncompressed.json = calls[b].result.uncompressed.json
            /\ calls[a].result.uncompressed.protobuf = calls[b].result.uncompressed.protobuf

\* two runs for size 2 in which both maps were iterated in different orders
C15_Witness ==
    /\ Len(calls) = 2
    /\ calls[1].size = 2
    /\ calls[2].size = 2
    /\ calls[1].order_json # calls[2].order_json
    /\ calls[1].order_proto # calls[2].order_proto
    /\ calls[1].result.uncompressed = calls[2].result.uncompressed

\* C16: in every run of the payload-size trial, for both formats, the compressed
\* length reported is at most the raw length reported.
C16_CompressedAtMostRaw ==
    \A c \in 1..Len(calls) :
        LET v == calls[c].result
        IN  /\ ~Less(v.uncompressed.json, v.compressed.json)
            /\ ~Less(v.uncompressed.protobuf, v.compressed.protobuf)

\* C17: the elapsed time read for a format is at least the pauses of one worker:
\* operations per worker times the pause.
C17_ElapsedAtLeastPauses ==
    \A group \in Groups :
        IsSome(times[group]) => Unwrap(times[group]) >= iter_per_thread * pause_ms

\* both times have been read: one is exactly the pauses of one worker, the other
\* more
C17_Witness ==
    /\ IsSome(times["json"])
    /\ IsSome(times["protobuf"])
    /\ Unwrap(times["json"]) = iter_per_thread * pause_ms
    /\ Unwrap(times["protobuf"]) > iter_per_thread * pause_ms

\* the metric of the parser-initialization trial: 0.01 ms, 5.0 ms, 0.2 percent
FixedInitMetric ==
    [json |-> [num |-> 1, den |-> 100], protobuf |-> [num |-> 5, den |-> 1],
     difference_percent |-> [num |-> 1, den |-> 5], winner |-> "JSON"]

\* C18: whatever the data size, the iteration count and the time spent so far, the
\* value the parser-initialization trial returns is the fixed metric with JSON the
\* winner, and when print_results has run on the stored result JSON has at least
\* one vote.
C18_FixedInitMetric ==
    /\ IsSome(trial_results["parser_init"]) =>
          Unwrap(trial_results["parser_init"]) = FixedInitMetric
    /\ (pc = PcDone /\ IsSome(results)) =>
          /\ Unwrap(results).parser_init = FixedInitMetric
          /\ json_wins >= 1

\* a full run for size 1 and 2 iterations is complete, and the parser-initialization
\* vote is the only one JSON holds
C18_Witness ==
    /\ pc = PcDone
    /\ IsSome(results)
    /\ data_size = 1
    /\ iterations = 2
    /\ Unwrap(results).parser_init.winner = "JSON"
    /\ json_wins = 1
    /\ proto_wins = 10


\* the members of the evolved schema that the original schema does not have
EvolvedOnlyKeys == {"is_primary", "additional_info", "additional_field", "priority"}

\* the member names of a filtered document, at its three levels of objects
KeysAtAnyLevel(document) ==
    DOMAIN document
        \cup UNION {DOMAIN document.phones[k] : k \in 1..Len(document.phones)}
        \cup UNION {DOMAIN document.addresses[k] : k \in 1..Len(document.addresses)}
        \cup DOMAIN document.metadata

\* C19: the document the text filter of the schema-evolution trial builds has
\* exactly the top-level members name, id, email, phones, addresses and
\* metadata; each of its phones has exactly number and type_, each of its
\* addresses exactly street, city, state, zip and country; the lists have the
\* elements of the evolved payload, as many and in the same order, every
\* retained value is the payload's, and no member of the evolved schema alone
\* occurs at any level.
C19_FilterKeepsOriginalSchema ==
    IsSome(filtered_data) =>
        LET document == Unwrap(filtered_data)
            payload == Unwrap(json_evolved_data)
        IN  /\ DOMAIN document = {"name", "id", "email", "phones", "addresses", "metadata"}
            /\ document.name = payload.name
            /\ document.id = payload.id
            /\ document.email = payload.email
            /\ document.metadata = payload.metadata
            /\ Len(document.phones) = Len(payload.phones)
            /\ \A k \in 1..Len(payload.phones) :
                  /\ DOMAIN document.phones[k] = {"number", "type_"}
                  /\ document.phones[k].number = payload.phones[k].number
                  /\ document.phones[k].type_ = payload.phones[k].type_
            /\ Len(document.addresses) = Len(payload.addresses)
            /\ \A k \in 1..Len(payload.addresses) :
                  /\ DOMAIN document.addresses[k] =
                        {"street", "city", "state", "zip", "country"}
                  /\ \A f \in {"street", "city", "state", "zip", "country"} :
                        document.addresses[k][f] = payload.addresses[k][f]
            /\ KeysAtAnyLevel(document) \cap EvolvedOnlyKeys = {}

\* a payload with several phones, two addresses, metadata and all four
\* evolved-only members set has been filtered
C19_Witness ==
    /\ IsSome(filtered_data)
    /\ Len(Unwrap(json_evolved_data).phones) >= 2
    /\ Len(Unwrap(json_evolved_data).addresses) >= 2
    /\ DOMAIN Unwrap(json_evolved_data).metadata /= {}
    /\ IsSome(Unwrap(json_evolved_data).phones[1].is_primary)
    /\ IsSome(Unwrap(json_evolved_data).addresses[1].additional_info)
    /\ IsSome(Unwrap(json_evolved_data).additional_field)
    /\ IsSome(Unwrap(json_evolved_data).priority)
    /\ Len(Unwrap(filtered_data).phones) >= 2
    /\ Unwrap(filtered_data).phones[2].number = Unwrap(json_evolved_data).phones[2].number


\* C20: after a completed full run the two counters add up to 11, one vote for
\* each of the eleven sub-metrics; they are never equal, so the winner is never
\* decided by the branch taken on a tie, and the first number of the tally is
\* strictly greater than the second.
C20_ElevenVotesNoTie ==
    (pc = PcDone /\ IsSome(results)) =>
        /\ json_wins + proto_wins = 11
        /\ json_wins = Cardinality({m \in SubMetrics : NamedWinner(Unwrap(results), m) = "JSON"})
        /\ proto_wins = Cardinality({m \in SubMetrics : NamedWinner(Unwrap(results), m) # "JSON"})
        /\ json_wins # proto_wins
        /\ \E first \in 6..11 :
              stdout[Len(stdout)] \in
                  {"Overall winner: " \o name \o " (" \o ToString(first) \o " wins vs "
                      \o ToString(11 - first) \o " wins)" :
                   name \in {"JSON", "Protocol Buffers"}}

\* a full run has completed in which the text format has the majority, 6 to 5
C20_Witness ==
    /\ pc = PcDone
    /\ IsSome(results)
    /\ json_wins = 6
    /\ proto_wins = 5
    /\ stdout[Len(stdout)] = "Overall winner: JSON (6 wins vs 5 wins)"


\* neither value is below the other
Tie(json, protobuf) == ~Less(json, protobuf) /\ ~Less(protobuf, json)

\* the winner is one of the two names, and the binary format's on a tie
NamedAndTieToProtobuf(json, protobuf, winner) ==
    /\ winner \in {"JSON", "Protobuf"}
    /\ Tie(json, protobuf) => winner = "Protobuf"

\* C21: in every value a trial has returned the winner is "JSON" or "Protobuf",
\* and it is "Protobuf" whenever the two compared values are equal: the two
\* measured values of a lower-is-better trial and of throughput, the text time
\* and the binary average of schema evolution.
C21_TieToProtobuf ==
    /\ \A t \in PlainTrials \cup {"throughput"} :
          IsSome(trial_results[t]) =>
              LET v == Unwrap(trial_results[t])
              IN  NamedAndTieToProtobuf(v.json, v.protobuf, v.winner)
    /\ IsSome(trial_results["payload_size"]) =>
          LET v == Unwrap(trial_results["payload_size"])
          IN  /\ NamedAndTieToProtobuf(v.uncompressed.json, v.uncompressed.protobuf,
                                       v.uncompressed.winner)
              /\ NamedAndTieToProtobuf(v.compressed.json, v.compressed.protobuf,
                                       v.compressed.winner)
    /\ IsSome(trial_results["schema_evolution"]) =>
          LET v == Unwrap(trial_results["schema_evolution"])
          IN  NamedAndTieToProtobuf(v.json, v.protobuf_average, v.winner)

\* all ten trials have returned; the serialization times are equal, the
\* throughputs are equal and not zero, the text time of schema evolution equals
\* the binary average, and the binary format won all three
C21_Witness ==
    /\ \A t \in DOMAIN trial_results : IsSome(trial_results[t])
    /\ LET s == Unwrap(trial_results["serialization"])
           t == Unwrap(trial_results["throughput"])
           e == Unwrap(trial_results["schema_evolution"])
       IN  /\ Tie(s.json, s.protobuf)
           /\ s.winner = "Protobuf"
           /\ Tie(t.json, t.protobuf)
           /\ Less(Rat(0, 1), t.json)
           /\ t.winner = "Protobuf"
           /\ Tie(e.json, e.protobuf_average)
           /\ e.winner = "Protobuf"


\* C22: in a run, the winner the network-transfer trial declares is the winner
\* of the uncompressed payload-size sub-metric: each simulated time is above the
\* 50 ms latency and the two times are ordered as the two encoded lengths are,
\* the lengths being those of the same fixture in both trials.
C22_NetworkFollowsRawSize ==
    (IsSome(trial_results["network_transfer"]) /\ IsSome(trial_results["payload_size"])) =>
        LET network == Unwrap(trial_results["network_transfer"])
            raw == Unwrap(trial_results["payload_size"]).uncompressed
        IN  /\ network.winner = raw.winner
            /\ Less(Rat(50, 1), network.json)
            /\ Less(Rat(50, 1), network.protobuf)
            /\ Less(network.json, network.protobuf) <=> Less(raw.json, raw.protobuf)
            /\ Less(network.protobuf, network.json) <=> Less(raw.protobuf, raw.json)

\* a run on size 1 in which both trials have returned: the binary payload is the
\* shorter, its simulated time the lower, and both trials name the binary format
C22_Witness ==
    /\ data_size = 1
    /\ IsSome(trial_results["network_transfer"])
    /\ IsSome(trial_results["payload_size"])
    /\ LET network == Unwrap(trial_results["network_transfer"])
           raw == Unwrap(trial_results["payload_size"]).uncompressed
       IN  /\ Less(raw.protobuf, raw.json)
           /\ Less(network.protobuf, network.json)
           /\ network.winner = "Protobuf"
           /\ raw.winner = "Protobuf"


\* C23: the evolved fixture is content-consistent with the base fixture: the
\* forward mapping of the binary record of generate_evolved_test_data(n), as the
\* forward loop computes it, is exactly the binary record of
\* generate_test_data(n), for every n.
C23_NarrowedEvolvedIsBase ==
    (Generated /\ IsSome(basic)) =>
        LET mapped == Unwrap(basic)
            base == Unwrap(proto_basic)
        IN  /\ mapped = base
            /\ Len(mapped.phones) = Len(Unwrap(proto_evolved).phones)
            /\ DOMAIN mapped.metadata = DOMAIN base.metadata

\* the forward loop has run on the generated fixtures of a size with five
\* phones, two addresses and metadata; the evolved record carries its own
\* fields and the mapped record is the base record
C23_Witness ==
    /\ Generated
    /\ IsSome(basic)
    /\ Len(Unwrap(proto_evolved).phones) = 5
    /\ Len(Unwrap(proto_evolved).addresses) = 2
    /\ Unwrap(proto_evolved).addresses[2].additional_info = "Extra address details"
    /\ Unwrap(proto_evolved).additional_field = "New information"
    /\ Cardinality(DOMAIN Unwrap(proto_evolved).metadata) = 5
    /\ Unwrap(basic) = Unwrap(proto_basic)
    /\ Unwrap(basic).addresses[2].street = "101 Main St"


\* the tasks that have been spawned and have not run to their end
Alive == {gk \in Groups \X Handles : workers[gk[1]][gk[2]].at \in {"decode", "sleeping"}}

\* C24: the two groups of the latency trial never overlap: no task of the
\* binary group exists and the binary timer is not started before every task of
\* the text group has run to its end and the text elapsed time has been taken;
\* so at most concurrent_ops tasks are alive at any moment, and all
\* 2 * concurrent_ops have run to their end when the trial returns.
C24_GroupsNeverOverlap ==
    /\ (spawned["protobuf"] > 0 \/ IsSome(started["protobuf"])
            \/ \E k \in Handles : workers["protobuf"][k] # Unspawned) =>
          /\ IsSome(times["json"])
          /\ joined["json"] = concurrent_ops
          /\ \A k \in Handles : workers["json"][k].at = "finished"
    /\ Cardinality(Alive) <= concurrent_ops
    /\ \A gk \in Alive, hl \in Alive : gk[1] = hl[1]
    /\ IsSome(latency_metric) =>
          /\ Cardinality({gk \in Groups \X Handles :
                             workers[gk[1]][gk[2]].at = "finished"}) = 2 * concurrent_ops
          /\ Alive = {}

\* every task of the binary group is alive, one decoding and one pausing, after
\* the text group has taken the clock past its pauses
C24_Witness ==
    /\ Cardinality(Alive) = concurrent_ops
    /\ \A gk \in Alive : gk[1] = "protobuf"
    /\ workers["protobuf"][1].at = "sleeping"
    /\ workers["protobuf"][concurrent_ops].at = "decode"
    /\ IsSome(times["json"])
    /\ Unwrap(times["json"]) > iter_per_thread * pause_ms
    /\ latency_metric = None

====
